---- MODULE Spec2Model ----
(***************************************************************************)
(* Property binding engine of sixtyfps                                     *)
(* (sixtyfps_runtime/corelib/abi/properties.rs).                           *)
(*                                                                         *)
(* A Property is a value slot plus a PropertyImpl {binding, dependencies,  *)
(* dirty} behind an Rc<RefCell<..>>.  The thread-local CURRENT_BINDING     *)
(* names the property whose binding is being evaluated.  Every public      *)
(* operation (get, set, set_binding and the sixtyfps_property_* foreign    *)
(* functions) runs to completion inside one call, so each is one action;   *)
(* the nested calls it makes are computed by recursive operators over a    *)
(* record of the engine's state.                                           *)
(*                                                                         *)
(* Two users of the engine are modelled after it, each with a next-state   *)
(* relation of its own: the Repeater with its model and ModelNotify        *)
(* (api/sixtyfps-rs/repeater.rs) and the TextCursorBlinker                 *)
(* (internal/core/input.rs), which the TextInput (internal/core/items/     *)
(* text.rs) binds its cursor to.  The mouse input of a window              *)
(* (process_mouse_input in internal/core/input.rs) is modelled beside      *)
(* them.                                                                   *)
(***************************************************************************)
EXTENDS Integers, Sequences, FiniteSets, TLC

\* ------------------------------------------------------------------------
\* The component of properties_simple_test:
\*     struct Component { width: Property<T>, height: Property<T>, area: Property<T> }
\* with T = bool, written 0 (false) and 1 (true).
\* ------------------------------------------------------------------------
\* The number of Property fields of Component: 1 width, 2 height, 3 area.
NProps == 3
\* Longest dependencies Vec explored (the Vec itself is unbounded).
MaxDeps == 2

Props == 1..NProps
width == 1
height == 2
area == 3
Val == {0, 1}
\* Deepest nesting of binding evaluations the model follows.  With RefCell
\* borrow checking no property is entered twice, so NProps is never exceeded.
MaxDepth == NProps + 1

\* Option::None for CURRENT_BINDING, and "no value returned".
None == 0
NoValue == 0 - 1

\* ------------------------------------------------------------------------
\* Bindings (the closures handed to set_binding).  A closure only reads
\* other properties through get():
\*   Not(a)         || !a.get()
\*   Xor(a, b)      || a.get() ^ b.get()
\*   Branch(c,a,b)  || if c.get() { a.get() } else { b.get() }
\* (the shapes of the closures of properties_simple_test, which read one and
\* two properties, plus one that reads different properties depending on
\* what it reads first).  Option<Rc<dyn Binding>>::None is NoBinding.
\* ------------------------------------------------------------------------
NoBinding == [k |-> "none", a |-> 0, b |-> 0, c |-> 0]
Not(a) == [k |-> "not", a |-> a, b |-> 0, c |-> 0]
Xor(a, b) == [k |-> "xor", a |-> a, b |-> b, c |-> 0]
Branch(c, a, b) == [k |-> "branch", a |-> a, b |-> b, c |-> c]
\* A Binding object that overrides allow_replace_binding_with_value and
\* allow_replace_binding_with_binding to return false ("the binding wants
\* to remain active"); it evaluates || a.get().
Pinned(a) == [k |-> "pinned", a |-> a, b |-> 0, c |-> 0]
\* The closure TextCursorBlinker::set_binding installs:
\*   Visible(a)     move || a.get()
Visible(a) == [k |-> "read", a |-> a, b |-> 0, c |-> 0]
\* Closures that write a property while they run:
\*   Setter(a, t)   || { a.set(t); t }
\*   Rebinder(a)    || { a.set_binding(|| width.get() ^ height.get()); false }
Setter(a, t) == [k |-> "set", a |-> a, b |-> t, c |-> 0]
Rebinder(a) == [k |-> "rebind", a |-> a, b |-> 0, c |-> 0]

\* The closures the model installs on property p: width and height read
\* each other (a chain, or a loop when both are bound), area reads both.
Closures(p) ==
    CASE p = width -> {Not(height)}
      [] p = height -> {Not(width)}
      [] OTHER -> {Xor(width, height), Branch(width, width, height)}

\* The properties a closure mentions.
Mentions(f) ==
    CASE f.k = "not" -> {f.a}
      [] f.k = "pinned" -> {f.a}
      [] f.k = "read" -> {f.a}
      [] f.k = "set" -> {f.a}
      [] f.k = "rebind" -> {f.a}
      [] f.k = "xor" -> {f.a, f.b}
      [] f.k = "branch" -> {f.c, f.a, f.b}
      [] OTHER -> {}

\* ------------------------------------------------------------------------
\* The engine.  s is the state of one call in progress:
\*   value, binding, dependencies, dirty, alive   the properties
\*   cur        CURRENT_BINDING
\*   borrowed   the RefCells with an outstanding RefMut
\*   panic      a panic! is unwinding
\*   ret        the value the innermost finished get returned
\* and what the call did, kept for the properties stated below:
\*   evals      the properties whose binding was invoked, in order
\*   marks      the properties mark_dirty visited, in order
\*   reads      for each property, what the last run of its closure read
\*   added      what that run read and the run before it had not
\*   active     the stack of properties whose binding is running
\*   reentered  a closure read a property whose binding was running
\*   twice      a binding was invoked while it was already running
\*   overflow   the nesting went past MaxDepth
\*   freed      the properties whose binding object was dropped, in order
\*   stray      a get returned with another CURRENT_BINDING than it began
\*              with, or a closure read a property while CURRENT_BINDING
\*              was not its own property
\* ------------------------------------------------------------------------
Range(q) == {q[i] : i \in 1..Len(q)}

Panic(s) == [s EXCEPT !.panic = TRUE]

\* (mutant) a RefCell that never reports an outstanding borrow
is_borrowed_never(s, p) == FALSE

\* RefCell: a borrow()/borrow_mut() of p panics while a RefMut of p is out.
is_borrowed(s, p) == p \in s.borrowed

\* (mutant) a Weak that upgrades after the property is gone
upgrade_dangling(s, d) == TRUE

\* Weak::upgrade succeeds while the property exists.
upgrade(s, d) == s.alive[d]

RECURSIVE get(_, _)
RECURSIVE sixtyfps_property_update(_, _)
RECURSIVE mark_dirty(_, _)
RECURSIVE mark_dependencies(_, _)
RECURSIVE set(_, _, _)
RECURSIVE set_binding(_, _, _)

\* (mutant) the marker is taken, not borrowed: one edge per evaluation
register_once(s, p) ==
    IF s.cur = None THEN s
    ELSE IF is_borrowed(s, p) THEN Panic(s)
    ELSE [s EXCEPT !.dependencies[p] = Append(@, s.cur), !.cur = None]

\* PropertyNotify::register_current_binding_as_dependency
register_current_binding_as_dependency(s, p) ==
    IF s.cur = None THEN s
    ELSE IF is_borrowed(s, p) THEN Panic(s)
    ELSE [s EXCEPT !.dependencies[p] = Append(@, s.cur)]

\* (mutant) the dependents are not told
mark_dependencies_skipped(s, v) == s

\* PropertyNotify::mark_dirty: the loop over the swapped-out Vec
mark_dependencies(s, v) ==
    IF v = <<>> \/ s.panic THEN s
    ELSE mark_dependencies(IF upgrade(s, Head(v)) THEN mark_dirty(s, Head(v)) ELSE s,
                           Tail(v))

\* (mutant) the dependents are marked, theirs are not
mark_dirty_direct(s, p) ==
    IF is_borrowed(s, p) THEN Panic(s)
    ELSE [s EXCEPT !.dirty = [q \in Props |->
                                @[q] \/ q = p
                                \/ (q \in Range(s.dependencies[p]) /\ s.alive[q])],
                   !.dependencies[p] = <<>>,
                   !.marks = Append(@, p)]

\* (mutant) the Vec is walked in place instead of being swapped out
mark_dirty_keeping_edges(s, p) ==
    IF is_borrowed(s, p) THEN Panic(s)
    ELSE IF p \in Range(s.marks) THEN s
    ELSE mark_dependencies([s EXCEPT !.dirty[p] = TRUE,
                                     !.marks = Append(@, p)],
                           s.dependencies[p])

\* (mutant) a property that is marked is brought up to date at once
mark_dirty_eager(s, p) ==
    IF is_borrowed(s, p) THEN Panic(s)
    ELSE LET s1 == mark_dependencies([s EXCEPT !.dirty[p] = TRUE,
                                               !.dependencies[p] = <<>>,
                                               !.marks = Append(@, p)],
                                     s.dependencies[p])
         IN  IF s1.panic THEN s1 ELSE get(s1, p)

\* PropertyNotify::mark_dirty (Binding::mark_dirty is the default no-op)
mark_dirty(s, p) ==
    IF is_borrowed(s, p) THEN Panic(s)
    ELSE mark_dependencies([s EXCEPT !.dirty[p] = TRUE,
                                     !.dependencies[p] = <<>>,
                                     !.marks = Append(@, p)],
                           s.dependencies[p])

\* The closure of property p calls q.get(context).
closure_get(s, p, q) ==
    get([s EXCEPT !.reads[p] = @ \cup {q},
                  !.reentered = @ \/ (q \in Range(s.active)),
                  !.stray = @ \/ (s.cur # p)], q)

\* Binding::evaluate of BindingFunction: *ptr = f(context)
evaluate(s, p) ==
    LET f == s.binding[p]
        s1 == closure_get(s, p, IF f.k = "branch" THEN f.c ELSE f.a)
        s2 == closure_get(s1, p, IF f.k = "xor" THEN f.b
                                 ELSE IF s1.ret # 0 THEN f.a ELSE f.b)
        w == IF f.k = "set" THEN set(s, f.a, f.b)
             ELSE set_binding(s, f.a, Xor(width, height))
    IN  IF f.k \in {"set", "rebind"}
        THEN IF w.panic THEN w ELSE [w EXCEPT !.value[p] = f.b]
        ELSE IF s1.panic THEN s1
        ELSE IF f.k = "not" THEN [s1 EXCEPT !.value[p] = 1 - s1.ret]
        ELSE IF f.k \in {"pinned", "read"} THEN [s1 EXCEPT !.value[p] = s1.ret]
        ELSE IF s2.panic THEN s2
        ELSE IF f.k = "xor" THEN [s2 EXCEPT !.value[p] = (s1.ret + s2.ret) % 2]
        ELSE [s2 EXCEPT !.value[p] = s2.ret]

\* (mutant) the dirty flag is not consulted
update_always(s, p) ==
    IF is_borrowed(s, p) THEN Panic(s)
    ELSE IF s.binding[p] = NoBinding THEN s
    ELSE IF Len(s.active) >= MaxDepth THEN [Panic(s) EXCEPT !.overflow = TRUE]
    ELSE LET s1 == evaluate([s EXCEPT !.borrowed = @ \cup {p},
                                      !.cur = p,
                                      !.evals = Append(@, p),
                                      !.active = Append(@, p),
                                      !.reads[p] = {}], p)
         IN  IF s1.panic
             THEN [s1 EXCEPT !.borrowed = @ \ {p}, !.active = s.active]
             ELSE [s1 EXCEPT !.dirty[p] = FALSE,
                             !.cur = s.cur,
                             !.borrowed = @ \ {p},
                             !.active = s.active]

\* (mutant) CURRENT_BINDING is not swapped back after the evaluation
update_leaving_marker(s, p) ==
    IF is_borrowed(s, p) THEN Panic(s)
    ELSE IF ~s.dirty[p] THEN s
    ELSE IF s.binding[p] = NoBinding THEN s
    ELSE IF Len(s.active) >= MaxDepth THEN [Panic(s) EXCEPT !.overflow = TRUE]
    ELSE LET s1 == evaluate([s EXCEPT !.borrowed = @ \cup {p},
                                      !.cur = p,
                                      !.evals = Append(@, p),
                                      !.twice = @ \/ (p \in Range(s.active)),
                                      !.active = Append(@, p),
                                      !.reads[p] = {}], p)
         IN  IF s1.panic
             THEN [s1 EXCEPT !.borrowed = @ \ {p}, !.active = s.active]
             ELSE [s1 EXCEPT !.dirty[p] = FALSE,
                             !.cur = p,
                             !.borrowed = @ \ {p},
                             !.active = s.active,
                             !.added[p] = IF s.reads[p] = {} THEN {}
                                          ELSE s1.reads[p] \ s.reads[p]]

\* (mutant) the RefMut outlives the evaluation
update_holding_lock(s, p) ==
    IF is_borrowed(s, p) THEN Panic(s)
    ELSE IF ~s.dirty[p] THEN s
    ELSE IF s.binding[p] = NoBinding THEN s
    ELSE IF Len(s.active) >= MaxDepth THEN [Panic(s) EXCEPT !.overflow = TRUE]
    ELSE LET s1 == evaluate([s EXCEPT !.borrowed = @ \cup {p},
                                      !.cur = p,
                                      !.evals = Append(@, p),
                                      !.twice = @ \/ (p \in Range(s.active)),
                                      !.active = Append(@, p),
                                      !.reads[p] = {}], p)
         IN  IF s1.panic
             THEN [s1 EXCEPT !.active = s.active]
             ELSE [s1 EXCEPT !.dirty[p] = FALSE,
                             !.cur = s.cur,
                             !.active = s.active,
                             !.added[p] = IF s.reads[p] = {} THEN {}
                                          ELSE s1.reads[p] \ s.reads[p]]

\* (mutant) a nested evaluation leaves the marker of the outer one in place
update_keeping_outer_marker(s, p) ==
    IF is_borrowed(s, p) THEN Panic(s)
    ELSE IF ~s.dirty[p] THEN s
    ELSE IF s.binding[p] = NoBinding THEN s
    ELSE IF Len(s.active) >= MaxDepth THEN [Panic(s) EXCEPT !.overflow = TRUE]
    ELSE LET s1 == evaluate([s EXCEPT !.borrowed = @ \cup {p},
                                      !.cur = IF s.cur = None THEN p ELSE s.cur,
                                      !.evals = Append(@, p),
                                      !.twice = @ \/ (p \in Range(s.active)),
                                      !.active = Append(@, p),
                                      !.reads[p] = {}], p)
         IN  IF s1.panic
             THEN [s1 EXCEPT !.borrowed = @ \ {p}, !.active = s.active]
             ELSE [s1 EXCEPT !.dirty[p] = FALSE,
                             !.cur = s.cur,
                             !.borrowed = @ \ {p},
                             !.active = s.active,
                             !.added[p] = IF s.reads[p] = {} THEN {}
                                          ELSE s1.reads[p] \ s.reads[p]]

\* (mutant) the binding is let go of once it has run
update_dropping_binding(s, p) ==
    IF is_borrowed(s, p) THEN Panic(s)
    ELSE IF ~s.dirty[p] THEN s
    ELSE IF s.binding[p] = NoBinding THEN s
    ELSE IF Len(s.active) >= MaxDepth THEN [Panic(s) EXCEPT !.overflow = TRUE]
    ELSE LET s1 == evaluate([s EXCEPT !.borrowed = @ \cup {p},
                                      !.cur = p,
                                      !.evals = Append(@, p),
                                      !.twice = @ \/ (p \in Range(s.active)),
                                      !.active = Append(@, p),
                                      !.reads[p] = {}], p)
         IN  IF s1.panic
             THEN [s1 EXCEPT !.borrowed = @ \ {p}, !.active = s.active]
             ELSE [s1 EXCEPT !.dirty[p] = FALSE,
                             !.binding[p] = NoBinding,
                             !.cur = s.cur,
                             !.borrowed = @ \ {p},
                             !.active = s.active,
                             !.added[p] = IF s.reads[p] = {} THEN {}
                                          ELSE s1.reads[p] \ s.reads[p]]

\* Property::update
update(s, p) ==
    IF is_borrowed(s, p) THEN Panic(s)
    ELSE IF ~s.dirty[p] THEN s
    ELSE IF s.binding[p] = NoBinding THEN s
    ELSE IF Len(s.active) >= MaxDepth THEN [Panic(s) EXCEPT !.overflow = TRUE]
    ELSE LET s1 == evaluate([s EXCEPT !.borrowed = @ \cup {p},
                                      !.cur = p,
                                      !.evals = Append(@, p),
                                      !.twice = @ \/ (p \in Range(s.active)),
                                      !.active = Append(@, p),
                                      !.reads[p] = {}], p)
         IN  IF s1.panic
             THEN [s1 EXCEPT !.borrowed = @ \ {p}, !.active = s.active]
             ELSE [s1 EXCEPT !.dirty[p] = FALSE,
                             !.cur = s.cur,
                             !.borrowed = @ \ {p},
                             !.active = s.active,
                             !.added[p] = IF s.reads[p] = {} THEN {}
                                          ELSE s1.reads[p] \ s.reads[p]]

\* Property::get
get(s, p) ==
    LET s1 == update(s, p)
        s2 == register_current_binding_as_dependency(s1, p)
    IN  IF s1.panic THEN s1
        ELSE IF s2.panic THEN s2
        ELSE IF is_borrowed(s2, p) THEN Panic(s2)
        ELSE [s2 EXCEPT !.ret = s2.value[p], !.stray = @ \/ (s2.cur # s.cur)]

\* Binding::allow_replace_binding_with_value: true by default, false for a
\* binding that overrides it
allow_replace_binding_with_value(f, t) == f.k # "pinned"

\* Binding::allow_replace_binding_with_binding: true by default, false for a
\* binding that overrides it
allow_replace_binding_with_binding(f, g) == f.k # "pinned"

\* (mutant) the binding is kept
set_keeping_binding(s, p, t) ==
    IF is_borrowed(s, p) THEN Panic(s)
    ELSE LET s1 == mark_dirty([s EXCEPT !.dirty[p] = FALSE,
                                        !.value[p] = t], p)
         IN  IF s1.panic THEN s1 ELSE [s1 EXCEPT !.dirty[p] = FALSE]

\* (mutant) the value is not stored
set_without_store(s, p, t) ==
    IF is_borrowed(s, p) THEN Panic(s)
    ELSE LET s1 == mark_dirty([s EXCEPT !.binding[p] = NoBinding,
                                        !.dirty[p] = FALSE], p)
         IN  IF s1.panic THEN s1 ELSE [s1 EXCEPT !.dirty[p] = FALSE]

\* (mutant) the flag that mark_dirty raised is left raised
set_leaving_dirty(s, p, t) ==
    IF is_borrowed(s, p) THEN Panic(s)
    ELSE mark_dirty([s EXCEPT !.binding[p] = NoBinding,
                              !.dirty[p] = FALSE,
                              !.value[p] = t], p)

\* (mutant) the installed binding is not asked
set_unasked(s, p, t) ==
    IF is_borrowed(s, p) THEN Panic(s)
    ELSE LET s1 == mark_dirty([s EXCEPT !.binding[p] = NoBinding,
                                        !.dirty[p] = FALSE,
                                        !.value[p] = t], p)
         IN  IF s1.panic THEN s1 ELSE [s1 EXCEPT !.dirty[p] = FALSE]

\* (mutant) set does not take the RefCell borrows
set_unlocked(s, p, t) ==
    IF s.binding[p] # NoBinding /\ ~allow_replace_binding_with_value(s.binding[p], t)
    THEN s
    ELSE LET s1 == mark_dirty([s EXCEPT !.binding[p] = NoBinding,
                                        !.dirty[p] = FALSE,
                                        !.value[p] = t], p)
         IN  IF s1.panic THEN s1 ELSE [s1 EXCEPT !.dirty[p] = FALSE]

\* Property::set
set(s, p, t) ==
    IF is_borrowed(s, p) THEN Panic(s)
    ELSE IF s.binding[p] # NoBinding /\ ~allow_replace_binding_with_value(s.binding[p], t)
    THEN s
    ELSE LET s1 == mark_dirty([s EXCEPT !.binding[p] = NoBinding,
                                        !.dirty[p] = FALSE,
                                        !.value[p] = t], p)
         IN  IF s1.panic THEN s1 ELSE [s1 EXCEPT !.dirty[p] = FALSE]

\* Property::set_binding_object
set_binding_object(s, p, f) ==
    IF is_borrowed(s, p) THEN Panic(s)
    ELSE mark_dirty([s EXCEPT !.binding[p] = f], p)

\* (mutant) the installed binding is not asked
set_binding_unasked(s, p, f) ==
    IF is_borrowed(s, p) THEN Panic(s) ELSE set_binding_object(s, p, f)

\* Property::set_binding
set_binding(s, p, f) ==
    IF is_borrowed(s, p) THEN Panic(s)
    ELSE IF s.binding[p] # NoBinding /\ ~allow_replace_binding_with_binding(s.binding[p], f)
    THEN s
    ELSE set_binding_object(s, p, f)

\* The foreign function of a CFunctionBinding reads another property:
\* sixtyfps_property_update on its handle, then the value behind it.
c_closure_get(s, p, q) ==
    sixtyfps_property_update([s EXCEPT !.reads[p] = @ \cup {q},
                                       !.reentered = @ \/ (q \in Range(s.active)),
                                       !.stray = @ \/ (s.cur # p)], q)

\* Binding::evaluate of CFunctionBinding: binding_function(user_data, context, value_ptr)
c_evaluate(s, p) ==
    LET f == s.binding[p]
        s1 == c_closure_get(s, p, IF f.k = "branch" THEN f.c ELSE f.a)
        s2 == c_closure_get(s1, p, IF f.k = "xor" THEN f.b
                                   ELSE IF s1.ret # 0 THEN f.a ELSE f.b)
    IN  IF s1.panic THEN s1
        ELSE IF f.k = "not" THEN [s1 EXCEPT !.value[p] = 1 - s1.ret]
        ELSE IF f.k = "pinned" THEN [s1 EXCEPT !.value[p] = s1.ret]
        ELSE IF s2.panic THEN s2
        ELSE IF f.k = "xor" THEN [s2 EXCEPT !.value[p] = (s1.ret + s2.ret) % 2]
        ELSE [s2 EXCEPT !.value[p] = s2.ret]

\* sixtyfps_property_update, then the caller reads the value slot
sixtyfps_property_update(s, p) ==
    IF is_borrowed(s, p) THEN Panic(s)
    ELSE IF ~s.dirty[p]
    THEN LET s0 == register_current_binding_as_dependency(s, p)
         IN  IF s0.panic THEN s0
             ELSE [s0 EXCEPT !.ret = s0.value[p], !.stray = @ \/ (s0.cur # s.cur)]
    ELSE IF Len(s.active) >= MaxDepth THEN [Panic(s) EXCEPT !.overflow = TRUE]
    ELSE LET s1 == IF s.binding[p] = NoBinding THEN s
                   ELSE c_evaluate([s EXCEPT !.borrowed = @ \cup {p},
                                             !.cur = p,
                                             !.evals = Append(@, p),
                                             !.twice = @ \/ (p \in Range(s.active)),
                                             !.active = Append(@, p),
                                             !.reads[p] = {}], p)
             s2 == IF s.binding[p] = NoBinding THEN s
                   ELSE [s1 EXCEPT !.dirty[p] = FALSE,
                                   !.cur = s.cur,
                                   !.borrowed = @ \ {p},
                                   !.active = s.active,
                                   !.added[p] = IF s.reads[p] = {} THEN {}
                                                ELSE s1.reads[p] \ s.reads[p]]
             s3 == register_current_binding_as_dependency(s2, p)
         IN  IF s1.panic THEN [s1 EXCEPT !.borrowed = @ \ {p}, !.active = s.active]
             ELSE IF s3.panic THEN s3
             ELSE [s3 EXCEPT !.ret = s3.value[p], !.stray = @ \/ (s3.cur # s.cur)]

\* (mutant) the user data is not handed to its destructor
release_leaking(s, p) == s

\* The last Rc of p's binding object goes away; for a CFunctionBinding,
\* Drop::drop calls drop_user_data(user_data).
release(s, p) ==
    IF s.binding[p] = NoBinding THEN s ELSE [s EXCEPT !.freed = Append(@, p)]

\* (mutant) the binding is left installed
set_changed_keeping_binding(s, p) ==
    LET s1 == mark_dirty(s, p)
    IN  IF s1.panic THEN s1 ELSE [s1 EXCEPT !.dirty[p] = FALSE]

\* (mutant) the flag that mark_dirty raised is left raised
set_changed_leaving_dirty(s, p) ==
    LET s1 == mark_dirty(s, p)
    IN  IF s1.panic THEN s1 ELSE [release(s1, p) EXCEPT !.binding[p] = NoBinding]

\* sixtyfps_property_set_changed
sixtyfps_property_set_changed(s, p) ==
    LET s1 == mark_dirty(s, p)
    IN  IF s1.panic THEN s1
        ELSE [release(s1, p) EXCEPT !.dirty[p] = FALSE, !.binding[p] = NoBinding]

\* sixtyfps_property_set_binding (CFunctionBinding)
sixtyfps_property_set_binding(s, p, f) ==
    IF is_borrowed(s, p) THEN Panic(s)
    ELSE mark_dirty([release(s, p) EXCEPT !.binding[p] = f], p)

\* sixtyfps_property_drop / drop of a Property: the PropertyImpl is freed,
\* the Weak pointers to it that other properties hold stay behind.
sixtyfps_property_drop(s, p) ==
    [release(s, p) EXCEPT !.alive[p] = FALSE,
              !.binding[p] = NoBinding,
              !.dependencies[p] = <<>>,
              !.dirty[p] = FALSE,
              !.value[p] = 0,
              !.reads[p] = {},
              !.added[p] = {}]

\* ------------------------------------------------------------------------
\* The repeater (src/api/sixtyfps-rs/repeater.rs): a VecModel, its
\* ModelNotify and the Repeaters that show the model.  The operators work
\* on a record m with the fields
\*   array      VecModel::array
\*   notify     ModelNotify::inner: the attached peers, as the allocations
\*              the Weak pointers point to, in the order of iteration
\*   repeater   per Repeater: exists, model (the value of the model
\*              property's binding: "null" or "vec"), model_dirty,
\*              components, is_dirty, offset
\*   other      a second VecModel: its array and its notify
\*   panic      a panic! unwound out of the call
\*   delivered  history: the peers the last notification was handed to

Repeaters == {"first", "second"}

\* Rows are added up to this many.
MaxRows == 2

\* Option<Pin<Rc<C>>>::None: the component is not instantiated.
NoComponent == <<>>

\* (RepeatedComponentState::Dirty, None)
DirtyNone == [state |-> "Dirty", comp |-> NoComponent]

\* RepeatedComponent::update(index, data), as what the component shows
\* afterwards.
updated(index, data) == <<index, data>>

\* RepeaterInner::default()
DefaultInner(rep) ==
    [rep EXCEPT !.components = <<>>, !.is_dirty = TRUE, !.offset = 0]

\* The allocation that the Rc in Repeater::inner of r points to.
Inner(r) == <<r, "inner">>

\* An allocation that the Rc of r pointed to until Rc::make_mut moved the
\* value out of it.
Freed(r) == <<r, "freed">>

\* Weak::upgrade on a peer: the allocation is the one of a Repeater that
\* exists.
Live(m, id) == \E r \in Repeaters : m.repeater[r].exists /\ Inner(r) = id

Owner(m, id) == id[1]

\* ViewAbstraction::row_changed for RepeaterInner
row_changed(m, r, row) ==
    LET inner == m.repeater[r]
        i == row - inner.offset
    IN [m EXCEPT !.repeater[r].is_dirty = TRUE,
                 !.repeater[r].components =
                     IF row >= inner.offset /\ i < Len(@)
                     THEN [@ EXCEPT ![i + 1].state = "Dirty"] ELSE @]

\* ViewAbstraction::row_added for RepeaterInner; Vec::splice panics when
\* the range starts past the end.
row_added(m, r, index0, count0) ==
    LET inner == m.repeater[r]
        before == index0 < inner.offset
        count == IF before THEN count0 - (inner.offset - index0) ELSE count0
        index == IF before THEN 0 ELSE index0 - inner.offset
        c == inner.components
    IN IF (before /\ index0 + count0 < inner.offset) \/ count = 0 THEN m
       ELSE IF index > Len(c)
       THEN [m EXCEPT !.repeater[r].is_dirty = TRUE, !.panic = TRUE]
       ELSE [m EXCEPT !.repeater[r].is_dirty = TRUE,
                      !.repeater[r].components =
                          SubSeq(c, 1, index) \o [j \in 1..count |-> DirtyNone]
                              \o SubSeq(c, index + 1, Len(c))]

\* ViewAbstraction::row_removed for RepeaterInner; Vec::drain panics when
\* the range ends past the end.
row_removed(m, r, index0, count0) ==
    LET inner == m.repeater[r]
        before == index0 < inner.offset
        count == IF before THEN count0 - (inner.offset - index0) ELSE count0
        index == IF before THEN 0 ELSE index0 - inner.offset
        c == inner.components
        rest == SubSeq(c, index + count + 1, Len(c))
    IN IF (before /\ index0 + count0 < inner.offset) \/ count = 0 THEN m
       ELSE IF index + count > Len(c)
       THEN [m EXCEPT !.repeater[r].is_dirty = TRUE, !.panic = TRUE]
       ELSE [m EXCEPT !.repeater[r].is_dirty = TRUE,
                      !.repeater[r].components =
                          SubSeq(c, 1, index)
                              \o [j \in 1..Len(rest) |->
                                      [rest[j] EXCEPT !.state = "Dirty"]]]

\* PtrWeakHashSet::iter, handing out every entry, also the expired ones.
iter_expired(m) == m.notify

\* PtrWeakHashSet::iter: the entries whose Weak still upgrades.
iter(m) == SelectSeq(m.notify, LAMBDA id : Live(m, id))

RECURSIVE for_each_peer(_, _, _, _, _)
\* for peer in self.inner.borrow().iter() { peer.borrow_mut().row_*(..) }
for_each_peer(m, q, kind, a, b) ==
    IF q = <<>> \/ m.panic THEN m
    ELSE LET id == Head(q)
             m1 == [m EXCEPT !.delivered = Append(@, id)]
             m2 == IF ~Live(m, id) THEN m1
                   ELSE IF kind = "row_changed" THEN row_changed(m1, Owner(m, id), a)
                   ELSE IF kind = "row_added" THEN row_added(m1, Owner(m, id), a, b)
                   ELSE row_removed(m1, Owner(m, id), a, b)
         IN for_each_peer(m2, Tail(q), kind, a, b)

\* ModelNotify::row_changed
notify_row_changed(m, row) == for_each_peer(m, iter(m), "row_changed", row, 0)

\* ModelNotify::row_added
notify_row_added(m, index, count) == for_each_peer(m, iter(m), "row_added", index, count)

\* ModelNotify::row_removed
notify_row_removed(m, index, count) == for_each_peer(m, iter(m), "row_removed", index, count)

\* ModelNotify::attach: peer.inner.upgrade().map(|rc| set.insert(rc)).  The
\* set holds an allocation once; expired entries, which iter never hands
\* out, are let go of when an entry is added.
attach(m, id) ==
    IF Live(m, id) /\ id \notin Range(m.notify)
    THEN [m EXCEPT !.notify = Append(iter(m), id)] ELSE m

\* VecModel::row_count
row_count(m) == Len(m.array)

\* VecModel::row_data; rows are counted from 0.
row_data(m, row) == m.array[row + 1]

\* VecModel::push
push(m, v) ==
    LET m1 == [m EXCEPT !.array = Append(@, v)]
    IN notify_row_added(m1, Len(m1.array) - 1, 1)

\* VecModel::remove
remove(m, index) ==
    LET m1 == [m EXCEPT !.array = SubSeq(@, 1, index) \o SubSeq(@, index + 2, Len(@))]
    IN notify_row_removed(m1, index, 1)

\* VecModel::set_row_data
set_row_data(m, row, data) ==
    notify_row_changed([m EXCEPT !.array[row + 1] = data], row)

\* A Model of the application that puts count rows in before the row
\* index and announces them with ModelNotify::row_added(index, count).
insert(m, index, count, v) ==
    LET m1 == [m EXCEPT !.array = SubSeq(@, 1, index) \o [j \in 1..count |-> v]
                                      \o SubSeq(@, index + 1, Len(@))]
    IN notify_row_added(m1, index, count)

\* Rc::make_mut leaving the value in the allocation the Weak pointers
\* point to.
make_mut_in_place(m, r) == m

\* Rc::make_mut on Repeater::inner, the only Rc: the value moves to a new
\* allocation when Weak pointers point to the old one, in whichever model
\* they are held.
make_mut(m, r) ==
    [m EXCEPT !.notify = [i \in 1..Len(@) |->
                             IF @[i] = Inner(r) THEN Freed(r) ELSE @[i]],
              !.other.notify = [i \in 1..Len(@) |->
                                   IF @[i] = Inner(r) THEN Freed(r) ELSE @[i]]]

\* The same state with the two models in each other's place: what is
\* written for the first model is then done on the second.
Swap(m) ==
    [m EXCEPT !.array = m.other.array, !.notify = m.other.notify,
              !.other = [array |-> m.array, notify |-> m.notify]]

\* m with the model that the binding of r's model property returns in the
\* first place; applied again it puts the models back.
Facing(m, r) == IF m.repeater[r].model = "other" THEN Swap(m) ELSE m

\* Repeater::model; the get of the model property runs its binding and
\* leaves the property clean.
model(m, r) ==
    IF m.repeater[r].model_dirty
    THEN LET m1 == [make_mut(m, r) EXCEPT !.repeater[r] = DefaultInner(@)]
             m2 == IF m1.repeater[r].model # "null"
                   THEN attach(m1, Inner(r)) ELSE m1
         IN [m2 EXCEPT !.repeater[r].model_dirty = FALSE]
    ELSE m

\* Repeater::ensure_updated_impl without the resize_with.
ensure_updated_impl_unsized(m, r, count) ==
    LET inner == m.repeater[r]
        c == inner.components
        offset == inner.offset
    IN [m EXCEPT !.repeater[r].components =
                     [i \in 1..Len(c) |->
                         IF c[i].state = "Dirty"
                         THEN [state |-> "Clean",
                               comp |-> updated(i - 1 + offset,
                                                row_data(m, i - 1 + offset))]
                         ELSE c[i]],
                 !.repeater[r].is_dirty = FALSE]

\* Repeater::ensure_updated_impl
ensure_updated_impl(m, r, count) ==
    LET inner == m.repeater[r]
        c == inner.components
        resized == IF Len(c) >= count THEN SubSeq(c, 1, count)
                   ELSE c \o [j \in 1..(count - Len(c)) |-> DirtyNone]
        offset == inner.offset
    IN [m EXCEPT !.repeater[r].components =
                     [i \in 1..Len(resized) |->
                         IF resized[i].state = "Dirty"
                         THEN [state |-> "Clean",
                               comp |-> updated(i - 1 + offset,
                                                row_data(m, i - 1 + offset))]
                         ELSE resized[i]],
                 !.repeater[r].is_dirty = FALSE]

\* Repeater::ensure_updated
ensure_updated(m, r) ==
    LET m1 == model(m, r)
    IN IF m1.repeater[r].model # "null"
       THEN IF m1.repeater[r].is_dirty
            THEN ensure_updated_impl(m1, r, row_count(m1)) ELSE m1
       ELSE [m1 EXCEPT !.repeater[r].components = <<>>]

\* Repeater::model_set_row_data
model_set_row_data(m, r, row, data) ==
    LET m1 == model(m, r)
        m2 == set_row_data(m1, row, data)
        c == m2.repeater[r].components
    IN IF m1.repeater[r].model = "null" THEN m1
       ELSE IF ~m2.panic /\ row < Len(c) /\ c[row + 1].state = "Dirty"
               /\ c[row + 1].comp # NoComponent
       THEN [m2 EXCEPT !.repeater[r].components[row + 1] =
                           [state |-> "Clean",
                            comp |-> updated(row, row_data(m2, row))]]
       ELSE m2

\* The Repeater is dropped, and its RepeaterInner with it: the model holds
\* a Weak pointer only.
drop_repeater(m, r) == [m EXCEPT !.repeater[r].exists = FALSE]

\* Repeater::default() and VecModel::default(): no binding on the model
\* property, whose value is None; every Repeater has its own RepeaterInner.
NewRepeater ==
    DefaultInner([exists |-> TRUE, model |-> "null", model_dirty |-> FALSE,
                  components |-> <<>>, is_dirty |-> TRUE, offset |-> 0])

\* ------------------------------------------------------------------------
\* The TextCursorBlinker (src/internal/core/input.rs).  Its cursor_visible
\* is the property width; timer is a record with the fields
\*   exists   TextCursorBlinker::new has been called
\*   armed    how many repeating callbacks of the blinker the timers hold
\*   again    history: start was called while the timer was running

NoBlinker == [exists |-> FALSE, armed |-> 0, again |-> FALSE]

cursor_visible == width

\* crate::timers::Timer, by what its functions are called for: running,
\* restart (the running timer starts its interval again), start (a new
\* repeating callback is handed to the timers), stop.
timer_running(t) == t.armed > 0

timer_restart(t) == t

timer_start(t) == [t EXCEPT !.armed = @ + 1]

timer_stop(t) == [t EXCEPT !.armed = 0]

\* The callback of the timer leaving cursor_visible as it is.
toggle_cursor_idle(s) == get(s, cursor_visible)

\* toggle_cursor, the callback TextCursorBlinker::start hands to the timer;
\* the blinker it upgrades is kept alive by its bindings.
toggle_cursor(s) ==
    LET s1 == get(s, cursor_visible)
    IN IF s1.panic THEN s1 ELSE set(s1, cursor_visible, 1 - s1.ret)

\* TextCursorBlinker::start
start(t) ==
    IF timer_running(t) THEN [timer_restart(t) EXCEPT !.again = TRUE]
    ELSE timer_start(t)

\* TextCursorBlinker::stop
stop(t) == timer_stop(t)

\* ---------------------------------------------------------------------
\* The mouse input of a window (input.rs): MouseInputState,
\* handle_mouse_grab, send_exit_events and process_mouse_input.
\*
\* The component is a root item with two children.  An ItemWeak upgrades
\* while its item is in the set alive.  One call of process_mouse_input
\* runs in an environment e:
\*   e.alive    the items that exist
\*   e.filter   what input_event_filter_before_children of each item
\*              answers, or "Outside" for an item that is not a clipping
\*              item and whose geometry does not contain the position
\*   e.input    what input_event of each item answers to the event
\* and works on a record w:
\*   mouse_input_state  the state handed in, as handle_mouse_grab leaves it
\*   result     the MouseInputState built by the traversal
\*   handled    what handle_mouse_grab returned
\*   r          has_aborted() of the last VisitChildrenResult
\*   received, filtered, traversed, grabber
\*              history: the input_event calls made as <<item, event>>,
\*              the items whose filter was called, whether the item tree
\*              was visited, the item that answered GrabMouse last
\* Positions are not modelled: an event is "event", the next_event of an
\* InterceptAndDispatch or MouseEvent::Exit.

Items == {"root", "child", "side"}

Children(item) == IF item = "root" THEN <<"child", "side">> ELSE <<>>

InputEventFilterResult ==
    {"ForwardEvent", "ForwardAndIgnore", "ForwardAndInterceptGrab",
     "Intercept", "InterceptAndDispatch"}

InputEventResult == {"EventAccepted", "EventIgnored", "GrabMouse"}

\* MouseInputState::default
MouseInputStateDefault == [item_stack |-> <<>>, grabbed |-> FALSE]

Working(mouse_input_state) ==
    [mouse_input_state |-> mouse_input_state, result |-> MouseInputStateDefault,
     handled |-> FALSE, r |-> FALSE,
     received |-> {}, filtered |-> {}, traversed |-> FALSE, grabber |-> ""]

\* send_exit_events on the item stack of state.
send_exit_events(e, w, state) ==
    LET stack == state.item_stack
        gone == {i \in 1..Len(stack) : stack[i].item \notin e.alive}
        reached == {i \in 1..Len(stack) : \A j \in gone : i < j}
    IN [w EXCEPT !.received =
                     @ \cup {<<stack[i].item, "Exit">> :
                                i \in {j \in reached : e.filter[stack[j].item] = "Outside"}}]

\* The closure handle_mouse_grab hands to item_stack.retain, on entry i.
\* a holds the locals intercept and invalid, the entries kept and w.
RECURSIVE retain(_, _, _, _)
retain(e, stack, i, a) ==
    IF i > Len(stack) THEN a
    ELSE LET it == stack[i]
             next ==
               IF a.invalid THEN a
               ELSE IF it.item \notin e.alive THEN [a EXCEPT !.invalid = TRUE]
               ELSE IF a.intercept
               THEN [a EXCEPT !.w.received = @ \cup {<<it.item, "Exit">>}]
               ELSE IF it.filter = "ForwardAndInterceptGrab"
               THEN [a EXCEPT !.w.filtered = @ \cup {it.item},
                              !.intercept = e.filter[it.item] = "Intercept",
                              !.kept = Append(@, it)]
               ELSE [a EXCEPT !.kept = Append(@, it)]
         IN retain(e, stack, i + 1, next)

\* handle_mouse_grab keeping the grab whatever the grabber answers.
handle_mouse_grab_held(e, w) ==
    LET state == w.mouse_input_state
        grabber == state.item_stack[Len(state.item_stack)].item
    IN IF ~state.grabbed \/ state.item_stack = <<>> \/ grabber \notin e.alive
       THEN [w EXCEPT !.handled = FALSE]
       ELSE [w EXCEPT !.received = @ \cup {<<grabber, "event">>},
                      !.grabber = IF e.input[grabber] = "GrabMouse" THEN grabber ELSE "",
                      !.handled = TRUE]

\* handle_mouse_grab
handle_mouse_grab(e, w) ==
    LET state == w.mouse_input_state
    IN IF ~state.grabbed \/ state.item_stack = <<>>
       THEN [w EXCEPT !.handled = FALSE]
       ELSE LET a == retain(e, state.item_stack, 1,
                            [intercept |-> FALSE, invalid |-> FALSE,
                             kept |-> <<>>, w |-> w])
                w1 == [a.w EXCEPT !.mouse_input_state.item_stack = a.kept]
            IN IF a.invalid THEN [w1 EXCEPT !.handled = FALSE]
               ELSE LET grabber == a.kept[Len(a.kept)].item
                        w2 == [w1 EXCEPT !.received = @ \cup {<<grabber, "event">>},
                                         !.handled = TRUE]
                    IN IF e.input[grabber] # "GrabMouse"
                       THEN LET w3 == [w2 EXCEPT !.mouse_input_state.grabbed = FALSE]
                            IN send_exit_events(e, w3, w3.mouse_input_state)
                       ELSE [w2 EXCEPT !.grabber = grabber]

NoPostVisit == [none |-> TRUE]

\* The first closure process_mouse_input hands to the traversal; state is
\* the mouse_grabber_stack and the mouse_event that reach the item.
visitor(e, item, state) ==
    LET f == e.filter[item]
        mouse_grabber_stack ==
            Append(state.mouse_grabber_stack,
                   [item |-> item,
                    filter |-> IF f = "Outside" THEN "ForwardAndIgnore" ELSE f])
        post(intercept) ==
            [none |-> FALSE, event2 |-> state.mouse_event,
             mouse_grabber_stack |-> mouse_grabber_stack, intercept |-> intercept]
        continue(mouse_event, post_visit_state) ==
            [abort |-> FALSE, asked |-> f # "Outside",
             state |-> [mouse_grabber_stack |-> mouse_grabber_stack,
                        mouse_event |-> mouse_event],
             post |-> post_visit_state]
    IN IF f \in {"Outside", "ForwardAndIgnore"}
       THEN continue(state.mouse_event, NoPostVisit)
       ELSE IF f \in {"ForwardEvent", "ForwardAndInterceptGrab"}
       THEN continue(state.mouse_event, post(FALSE))
       ELSE IF f = "InterceptAndDispatch"
       THEN continue("next_event", post(TRUE))
       ELSE [abort |-> TRUE, asked |-> TRUE, state |-> state, post |-> post(TRUE)]

\* The second closure leaving the filter result of the grabbing item as
\* it was pushed.
post_visitor_unmarked(e, w, item, post, r) ==
    IF post.none \/ (r /\ ~post.intercept) THEN [w EXCEPT !.r = r]
    ELSE LET w1 == [w EXCEPT !.received = @ \cup {<<item, post.event2>>}]
         IN IF e.input[item] = "EventAccepted"
            THEN IF w1.result.item_stack = <<>>
                 THEN [w1 EXCEPT !.result = [item_stack |-> post.mouse_grabber_stack,
                                             grabbed |-> FALSE],
                                 !.r = TRUE]
                 ELSE [w1 EXCEPT !.r = TRUE]
            ELSE IF e.input[item] = "EventIgnored"
            THEN [w1 EXCEPT !.r = FALSE]
            ELSE [w1 EXCEPT !.result = [item_stack |-> post.mouse_grabber_stack,
                                        grabbed |-> TRUE],
                            !.grabber = item, !.r = TRUE]

\* The second closure, called after the children of item; r tells whether
\* the visit of the children has aborted.
post_visitor(e, w, item, post, r) ==
    IF post.none \/ (r /\ ~post.intercept) THEN [w EXCEPT !.r = r]
    ELSE LET w1 == [w EXCEPT !.received = @ \cup {<<item, post.event2>>}]
         IN IF e.input[item] = "EventAccepted"
            THEN IF w1.result.item_stack = <<>>
                 THEN [w1 EXCEPT !.result = [item_stack |-> post.mouse_grabber_stack,
                                             grabbed |-> FALSE],
                                 !.r = TRUE]
                 ELSE [w1 EXCEPT !.r = TRUE]
            ELSE IF e.input[item] = "EventIgnored"
            THEN [w1 EXCEPT !.r = FALSE]
            ELSE [w1 EXCEPT !.result =
                                [item_stack |->
                                     [post.mouse_grabber_stack
                                          EXCEPT ![Len(post.mouse_grabber_stack)].filter =
                                                     "ForwardAndInterceptGrab"],
                                 grabbed |-> TRUE],
                            !.grabber = item, !.r = TRUE]

\* crate::item_tree::visit_items_with_post_visit: the items in the
\* sequence are visited in turn, each with its children before its post
\* visit, until one visit aborts.
RECURSIVE visit_items_with_post_visit(_, _, _, _, _)
visit_items_with_post_visit(e, w, items, k, state) ==
    IF k > Len(items) THEN [w EXCEPT !.r = FALSE]
    ELSE IF items[k] \notin e.alive
    THEN visit_items_with_post_visit(e, w, items, k + 1, state)
    ELSE LET item == items[k]
             v == visitor(e, item, state)
             w0 == IF v.asked THEN [w EXCEPT !.filtered = @ \cup {item}] ELSE w
             w1 == IF v.abort THEN post_visitor(e, w0, item, v.post, TRUE)
                   ELSE LET below == visit_items_with_post_visit(
                                          e, w0, Children(item), 1, v.state)
                        IN post_visitor(e, below, item, v.post, below.r)
         IN IF w1.r THEN w1
            ELSE visit_items_with_post_visit(e, w1, items, k + 1, state)

\* process_mouse_input visiting the item tree whatever the grab.
process_mouse_input_ungrabbed(e, mouse_input_state) ==
    LET w1 == [Working(mouse_input_state) EXCEPT !.traversed = TRUE]
        w2 == visit_items_with_post_visit(
                  e, w1, <<"root">>, 1,
                  [mouse_grabber_stack |-> <<>>, mouse_event |-> "event"])
    IN send_exit_events(e, w2, w2.mouse_input_state)

\* process_mouse_input; what it returns is w.result.
process_mouse_input(e, mouse_input_state) ==
    LET w == handle_mouse_grab(e, Working(mouse_input_state))
    IN IF w.handled THEN [w EXCEPT !.result = w.mouse_input_state]
       ELSE LET w1 == [w EXCEPT !.traversed = TRUE]
                w2 == visit_items_with_post_visit(
                          e, w1, <<"root">>, 1,
                          [mouse_grabber_stack |-> <<>>, mouse_event |-> "event"])
            IN send_exit_events(e, w2, w2.mouse_input_state)

VARIABLES
    value,            \* Property::value
    binding,          \* PropertyImpl::binding
    dependencies,     \* PropertyImpl::dependencies (Vec<Weak<dyn PropertyNotify>>)
    dirty,            \* PropertyImpl::dirty
    alive,            \* whether the Property (its Rc) still exists
    current_binding,  \* thread-local CURRENT_BINDING
    panicked,         \* a panic! unwound out of the last call and ended the thread
    reads,            \* history: what the last run of each closure read
    added,            \* history: what that run read and the run before it had not
    seen,             \* history: what the runs of a property's closures ever read
    cached,           \* history: the closures that ran since they were last invalidated
    literal,          \* history: the value set in place of a binding, per property
    last,             \* history: the last call and what it did
    ffi,              \* a second graph, driven through the sixtyfps_property_* functions
    observe,          \* which of the histories this run keeps: "none", "cache",
                      \* "literal", "ffi" for the second graph, and so on
    array,            \* VecModel::array
    notify,           \* VecModel::notify: the peers attached to the model
    repeater,         \* the Repeaters
    other,            \* a second VecModel: its array and its notify
    mouse_input_state,\* the MouseInputState the window holds
    items,            \* the items of the window's component that exist
    timer             \* the TextCursorBlinker and its cursor_blink_timer

vars == <<value, binding, dependencies, dirty, alive, current_binding, panicked,
          reads, added, seen, cached, literal, last, ffi, observe,
          array, notify, repeater, other, mouse_input_state, items, timer>>

\* The state a call starts from.
Enter(val, bnd, deps, drt, alv, cur, rds, add) ==
    [value |-> val, binding |-> bnd, dependencies |-> deps, dirty |-> drt,
     alive |-> alv, cur |-> cur, reads |-> rds, added |-> add,
     borrowed |-> {}, panic |-> FALSE, ret |-> NoValue,
     evals |-> <<>>, marks |-> <<>>, active |-> <<>>,
     reentered |-> FALSE, twice |-> FALSE, overflow |-> FALSE,
     freed |-> <<>>, stray |-> FALSE]

St == Enter(value, binding, dependencies, dirty, alive, current_binding,
            reads, added)

\* The closure of p is replaced or removed: its runs are history.
Forget(s, p) == [s EXCEPT !.reads[p] = {}, !.added[p] = {}]

RECURSIVE Reach(_, _, _)
\* The members of S and what they reach along rel in at most n steps.
Reach(rel, S, n) ==
    IF n = 0 THEN S ELSE Reach(rel, S \cup UNION {rel[q] : q \in S}, n - 1)

\* A write to u invalidates u and every property whose closures read u,
\* directly or through the closures of the properties they read.
Invalidated(u) == {q \in Props : u \in Reach(seen, {q}, NProps)}

IsWrite(op) == op \in {"set", "set_binding", "mark_changed"}

\* What `last` keeps of a finished call op(p, arg) that started in state s
\* and ended in state r:
\*   bound     p had a binding when the call began
\*   deps0     p's dependencies Vec when the call began
\*   follows   for a get: the value t of the p.set(t) made immediately before
\*             it on p, when p had no binding then; NoValue otherwise
Done(op, p, arg, s, r) ==
    [op |-> op, p |-> p, arg |-> arg,
     bound |-> IF p = None THEN FALSE ELSE s.binding[p] # NoBinding,
     deps0 |-> IF p = None THEN <<>> ELSE s.dependencies[p],
     follows |-> IF op = "get" /\ last.op = "set" /\ last.p = p /\ ~last.bound
                 THEN last.arg ELSE NoValue,
     ret |-> IF r.panic THEN NoValue ELSE r.ret,
     evals |-> r.evals, marks |-> r.marks,
     reentered |-> r.reentered, twice |-> r.twice, overflow |-> r.overflow,
     stray |-> r.stray]

\* A call that has left no history.
NoCall ==
    [op |-> "init", p |-> None, arg |-> NoValue, bound |-> FALSE,
     deps0 |-> <<>>, follows |-> NoValue, ret |-> NoValue,
     evals |-> <<>>, marks |-> <<>>,
     reentered |-> FALSE, twice |-> FALSE, overflow |-> FALSE, stray |-> FALSE]

\* The part of the history d of a call that the specification in force
\* keeps: the closure histories are read together with the call and the
\* closures it ran, the replaced bindings together with the call, its
\* result and the closures it ran.
Keep(d) ==
    IF observe = "cache"
    THEN [NoCall EXCEPT !.op = d.op, !.p = d.p, !.evals = d.evals]
    ELSE IF observe = "literal"
    THEN [NoCall EXCEPT !.op = d.op, !.p = d.p, !.ret = d.ret, !.evals = d.evals]
    ELSE d

\* No dependencies Vec is followed past MaxDeps entries.
InBounds(r) == \A p \in Props : Len(r.dependencies[p]) <= MaxDeps

\* The histories of the closures that are cached:
\*   seen[q]   every property a run of one of q's closures has read
\*   cached    the properties whose closure has run since the last write to
\*             the property or to anything it read, directly or through the
\*             closures of what it read
ObserveCache(d) ==
    /\ seen' = [q \in Props |->
                  IF ~alive'[q] THEN {}
                  ELSE IF q \in Range(d.evals) THEN seen[q] \cup reads'[q]
                  ELSE seen[q]]
    /\ cached' = IF IsWrite(d.op) THEN cached \ Invalidated(d.p)
                 ELSE IF d.op = "drop" THEN cached \ {d.p}
                 ELSE cached \cup Range(d.evals)

\* The history of the bindings replaced by a value:
\*   literal[p]  t once p.set(t) was accepted while p had a binding, and
\*               from then on the value of the latest p.set; NoValue again
\*               once p gets a binding, is written in place, or is dropped
ObserveLiteral(d) ==
    literal' = IF d.op = "set" /\ (d.bound \/ literal[d.p] # NoValue)
               THEN [literal EXCEPT ![d.p] = d.arg]
               ELSE IF IsWrite(d.op) \/ d.op = "drop"
               THEN [literal EXCEPT ![d.p] = NoValue]
               ELSE literal

\* The state the next call on the second graph starts from.
Ffi == Enter(ffi.value, ffi.binding, ffi.dependencies, ffi.dirty, ffi.alive,
             ffi.cur, ffi.reads, ffi.added)

\* The call op(p, arg) returns (or panics) and leaves the state r; c is the
\* state the same call, made through the foreign functions, leaves the
\* second graph in.
Return(op, p, arg, r, c) ==
    /\ InBounds(r)
    /\ value' = r.value
    /\ binding' = r.binding
    /\ dependencies' = r.dependencies
    /\ dirty' = r.dirty
    /\ alive' = r.alive
    /\ current_binding' = r.cur
    /\ panicked' = r.panic
    /\ reads' = r.reads
    /\ added' = r.added
    /\ last' = Keep(Done(op, p, arg, St, r))
    /\ IF observe = "cache" THEN ObserveCache(Done(op, p, arg, St, r))
       ELSE UNCHANGED <<seen, cached>>
    /\ IF observe = "literal" THEN ObserveLiteral(Done(op, p, arg, St, r))
       ELSE UNCHANGED literal
    /\ IF observe = "ffi" THEN InBounds(c) /\ ffi' = c ELSE UNCHANGED ffi
    /\ UNCHANGED <<observe, array, notify, repeater, other, mouse_input_state, items,
                   timer>>

Fresh ==
    Enter([p \in Props |-> 0], [p \in Props |-> NoBinding], [p \in Props |-> <<>>],
          [p \in Props |-> FALSE], [p \in Props |-> TRUE], None,
          [p \in Props |-> {}], [p \in Props |-> {}])

\* Component::default(): every property holds T::default(), no binding.
Start ==
    /\ value = Fresh.value
    /\ binding = Fresh.binding
    /\ dependencies = Fresh.dependencies
    /\ dirty = Fresh.dirty
    /\ alive = Fresh.alive
    /\ current_binding = None
    /\ panicked = FALSE
    /\ reads = Fresh.reads
    /\ added = Fresh.added
    /\ seen = [p \in Props |-> {}]
    /\ cached = {}
    /\ literal = [p \in Props |-> NoValue]
    /\ last = NoCall
    /\ array = <<>>
    /\ notify = <<>>
    /\ repeater = [r \in Repeaters |-> NewRepeater]
    /\ other = [array |-> <<>>, notify |-> <<>>]
    /\ mouse_input_state = MouseInputStateDefault
    /\ items = Items
    /\ timer = NoBlinker
    /\ ffi = Fresh

\* The Binding objects that decline to be replaced, and the closures that
\* write the property they are installed on, are installed only under the
\* specifications that study them.
Objects(p) ==
    IF observe = "decline" /\ p = width THEN {Pinned(height)}
    ELSE IF observe = "reenter" /\ p = area THEN {Setter(area, 1), Rebinder(area)}
    ELSE {}

\* A closure can be installed while the properties it captures exist.
Capturable(f) == \A q \in Mentions(f) : alive[q]

\* p.get(context) from outside any binding
\* (foreign: sixtyfps_property_update(p, context, &value), then read value)
Get(p) ==
    /\ ~panicked /\ alive[p]
    /\ Return("get", p, NoValue, get(St, p), sixtyfps_property_update(Ffi, p))

\* p.set(t)
\* (foreign: write t to the value, then sixtyfps_property_set_changed(p))
Set(p, t) ==
    /\ ~panicked /\ alive[p]
    /\ Return("set", p, t,
              set(IF allow_replace_binding_with_value(binding[p], t)
                  THEN Forget(St, p) ELSE St, p, t),
              sixtyfps_property_set_changed([Forget(Ffi, p) EXCEPT !.value[p] = t], p))

\* p.set_binding(f)
\* (foreign: sixtyfps_property_set_binding(p, f, user_data, drop_user_data))
\* A Binding object that is not a closure is installed by
\* p.set_binding_object(f).
SetBinding(p, f) ==
    /\ ~panicked /\ alive[p] /\ Capturable(f)
    /\ Return(IF f.k = "pinned" THEN "set_binding_object" ELSE "set_binding",
              p, NoValue,
              IF f.k = "pinned" THEN set_binding_object(Forget(St, p), p, f)
              ELSE set_binding(IF allow_replace_binding_with_binding(binding[p], f)
                               THEN Forget(St, p) ELSE St, p, f),
              sixtyfps_property_set_binding(Forget(Ffi, p), p, f))

\* The value of p is written in place, then sixtyfps_property_set_changed(p).
MarkChanged(p, t) ==
    /\ ~panicked /\ alive[p]
    /\ Return("mark_changed", p, t,
              sixtyfps_property_set_changed([Forget(St, p) EXCEPT !.value[p] = t], p),
              sixtyfps_property_set_changed([Forget(Ffi, p) EXCEPT !.value[p] = t], p))

\* The Property p is dropped; no installed closure captures it any more.
Drop(p) ==
    /\ ~panicked /\ alive[p]
    /\ \A q \in Props \ {p} : p \notin Mentions(binding[q])
    /\ Return("drop", p, NoValue, sixtyfps_property_drop(St, p),
              sixtyfps_property_drop(Ffi, p))

\* One call of the engine's interface, from outside any closure.
Next ==
    \/ \E p \in Props : Get(p)
    \/ \E p \in Props, t \in Val : Set(p, t)
    \/ \E p \in Props : \E f \in Closures(p) \cup Objects(p) : SetBinding(p, f)
    \/ \E p \in Props, t \in Val : MarkChanged(p, t)
    \/ \E p \in Props : Drop(p)

Init == Start /\ observe = "none"

Spec == Init /\ [][Next]_vars

\* The same program, keeping the history of the cached closures.
InitCache == Start /\ observe = "cache"

SpecCache == InitCache /\ [][Next]_vars

\* The same program, keeping the history of the replaced bindings.
InitLiteral == Start /\ observe = "literal"

SpecLiteral == InitLiteral /\ [][Next]_vars

\* The same calls made on two graphs: each call through the Rust interface
\* on the first, and through the foreign functions on the second.
InitFfi == Start /\ observe = "ffi"

SpecFfi == InitFfi /\ [][Next]_vars

\* The same program with a Binding object that declines to be replaced.
InitDecline == Start /\ observe = "decline"

SpecDecline == InitDecline /\ [][Next]_vars

\* The same program with closures that write their own property.
InitReenter == Start /\ observe = "reenter"

SpecReenter == InitReenter /\ [][Next]_vars

\* The state a call on the model or on a Repeater starts from.
View ==
    [array |-> array, notify |-> notify, repeater |-> repeater,
     other |-> other, panic |-> FALSE, delivered |-> <<>>]

\* The Repeaters the calls are made on: one where the components are
\* looked at, both where the notifications are.
Shown == IF observe = "notify" THEN Repeaters ELSE {"first"}

\* How many rows the model gets: the notifications are handed out in the
\* same way whatever the number of rows.
Rows == IF observe \in {"notify", "rebind"} THEN 1 ELSE MaxRows

\* What is kept of a component: where the notifications are looked at,
\* only whether it is instantiated.
Shows(c) ==
    IF observe = "notify" /\ c.comp # NoComponent
    THEN [c EXCEPT !.comp = updated(0, 0)] ELSE c

\* History: the peers that attach was called for when they were attached
\* already.
Again == IF last.op = "init" THEN {} ELSE last.again

\* The state after a call on the model or on a Repeater, and what the call
\* did: where the notifications are looked at, the peers a change of the
\* model notified, and the peers that were attached and alive when it was
\* made.
ViewReturn(op, r, m) ==
    /\ array' = m.array
    /\ notify' = m.notify
    /\ other' = m.other
    /\ repeater' = [q \in Repeaters |->
                       [m.repeater[q] EXCEPT !.components =
                            [i \in 1..Len(@) |-> Shows(@[i])]]]
    /\ panicked' = m.panic
    /\ last' = IF observe = "notify"
               THEN [op |-> op, r |-> r, delivered |-> m.delivered,
                     alive |-> IF r = "" THEN {id \in Range(notify) : Live(View, id)}
                               ELSE {},
                     again |-> (Again \cup (IF op = "attach" THEN {Inner(r)} ELSE {}))
                                   \cap Range(m.notify)]
               ELSE [op |-> op, r |-> r]
    /\ UNCHANGED <<value, binding, dependencies, dirty, alive, current_binding,
                   reads, added, seen, cached, literal, ffi, observe,
                   mouse_input_state, items, timer>>

Push(v) ==
    /\ ~panicked /\ Len(array) < Rows
    /\ ViewReturn("row_added", "", push(View, v))

Remove(index) ==
    /\ ~panicked /\ index < Len(array)
    /\ ViewReturn("row_removed", "", remove(View, index))

SetRowData(row, data) ==
    /\ ~panicked /\ row < Len(array)
    /\ ViewReturn("row_changed", "", set_row_data(View, row, data))

Insert(index, count, v) ==
    /\ ~panicked /\ index <= Len(array) /\ Len(array) + count <= Rows
    /\ ViewReturn("row_added", "", insert(View, index, count, v))

\* Repeater::set_model_binding: Property::set_binding leaves the model
\* property dirty; h is what the binding returns.
SetModelBinding(r, h) ==
    /\ ~panicked /\ repeater[r].exists
    /\ ViewReturn("set_model_binding", r,
                  [View EXCEPT !.repeater[r].model = h,
                               !.repeater[r].model_dirty = TRUE])

EnsureUpdated(r) ==
    /\ ~panicked /\ repeater[r].exists
    /\ ViewReturn("ensure_updated", r,
                  Facing(ensure_updated(Facing(View, r), r), r))

\* Model::set_row_data is called with row < row_count().
ModelSetRowData(r, row, data) ==
    /\ ~panicked /\ repeater[r].exists
    /\ \/ repeater[r].model = "null"
       \/ repeater[r].model = "vec" /\ row < Len(array)
       \/ repeater[r].model = "other" /\ row < Len(other.array)
    /\ ViewReturn("model_set_row_data", r,
                  Facing(model_set_row_data(Facing(View, r), r, row, data), r))

\* Model::attach_peer with a peer the model has attached already.
AttachPeer(r) ==
    /\ ~panicked /\ repeater[r].exists
    /\ Inner(r) \in Range(notify)
    /\ ViewReturn("attach", r, attach(View, Inner(r)))

DropRepeater(r) ==
    /\ ~panicked /\ repeater[r].exists
    /\ ViewReturn("drop", r, drop_repeater(View, r))

\* One call on the model or on one of the Repeaters that show it.
NextRepeater ==
    \/ \E v \in Val : Push(v)
    \/ \E index \in 0..(MaxRows - 1) : Remove(index)
    \/ \E row \in 0..(MaxRows - 1), data \in Val : SetRowData(row, data)
    \/ \E index \in 0..MaxRows, count \in 1..MaxRows, v \in Val : Insert(index, count, v)
    \/ \E r \in Shown, h \in {"null", "vec"} : SetModelBinding(r, h)
    \/ \E r \in Shown : EnsureUpdated(r)
    \/ \E r \in Shown, row \in 0..(MaxRows - 1), data \in Val :
           ModelSetRowData(r, row, data)
    \/ \E r \in Shown : AttachPeer(r)
    \/ \E r \in Shown : DropRepeater(r)

InitRepeater == Start /\ observe = "repeater"

SpecRepeater == InitRepeater /\ [][NextRepeater]_vars

\* The same model shown by two Repeaters, keeping the history of the
\* notifications.
InitNotify == Start /\ observe = "notify"

SpecNotify == InitNotify /\ [][NextRepeater]_vars

\* A change of the second model: a push, a remove or a set_row_data.  In
\* the history it is a call on "other".
ChangeOther(kind, row, v) ==
    /\ ~panicked
    /\ IF kind = "row_added" THEN Len(other.array) < Rows ELSE row < Len(other.array)
    /\ ViewReturn(kind, "other",
                  Swap(IF kind = "row_added" THEN push(Swap(View), v)
                       ELSE IF kind = "row_removed" THEN remove(Swap(View), row)
                       ELSE set_row_data(Swap(View), row, v)))

\* One call on one of two models or on the Repeater, whose model property
\* is bound to either of them.
NextRebind ==
    \/ NextRepeater
    \/ \E r \in Shown : SetModelBinding(r, "other")
    \/ \E kind \in {"row_added", "row_removed", "row_changed"},
          row \in 0..(MaxRows - 1), v \in Val : ChangeOther(kind, row, v)

InitRebind == Start /\ observe = "rebind"

SpecRebind == InitRebind /\ [][NextRebind]_vars

\* The state after a call on the TextCursorBlinker or a firing of its timer.
BlinkerReturn(op, p, arg, r, t) ==
    /\ InBounds(r)
    /\ value' = r.value
    /\ binding' = r.binding
    /\ dependencies' = r.dependencies
    /\ dirty' = r.dirty
    /\ current_binding' = r.cur
    /\ panicked' = r.panic
    /\ reads' = r.reads
    /\ added' = r.added
    /\ last' = Done(op, p, arg, St, r)
    /\ timer' = t
    /\ UNCHANGED <<alive, seen, cached, literal, ffi, observe, array, notify, repeater,
                   other, mouse_input_state, items>>

\* The properties of the items that show a cursor.
Cursors == {height, area}

\* What the properties that are bound to the blinker read.
Readings(s) ==
    [p \in Cursors |-> IF s.binding[p] = Visible(cursor_visible)
                       THEN get(s, p).ret ELSE NoValue]

\* TextCursorBlinker::new: cursor_visible is Property::new(true).
BlinkerNew ==
    /\ ~panicked /\ ~timer.exists
    /\ BlinkerReturn("new", None, NoValue, [St EXCEPT !.value[cursor_visible] = 1],
                     [timer EXCEPT !.exists = TRUE])

\* TextCursorBlinker::set_binding(instance, prop)
BlinkerSetBinding(p) ==
    /\ ~panicked /\ timer.exists
    /\ BlinkerReturn("blinker_set_binding", p, NoValue,
                     set_binding(set(Forget(St, p), cursor_visible, 1), p,
                                 Visible(cursor_visible)),
                     start(timer))

BlinkerStart ==
    /\ ~panicked /\ timer.exists
    /\ BlinkerReturn("start", None, NoValue, St, start(timer))

BlinkerStop ==
    /\ ~panicked /\ timer.exists
    /\ BlinkerReturn("stop", None, NoValue, St, stop(timer))

\* The interval of a running timer of the blinker has passed: its callback
\* runs.
Fire ==
    /\ ~panicked /\ timer_running(timer)
    /\ BlinkerReturn("fire", None, Readings(St), toggle_cursor(St), timer)

\* One call on the blinker, one firing of its timer, or one call on a
\* property of an item.
NextBlinker ==
    \/ BlinkerNew
    \/ \E p \in Cursors : BlinkerSetBinding(p)
    \/ BlinkerStart
    \/ BlinkerStop
    \/ Fire
    \/ \E p \in Props : Get(p)
    \/ \E p \in Cursors, t \in Val : Set(p, t)

InitBlinker == Start /\ observe = "blinker"

SpecBlinker == InitBlinker /\ [][NextBlinker]_vars

\* ---------------------------------------------------------------------
\* TextInput (text.rs): focus_event, show_cursor and hide_cursor on the
\* cursor_visible property p of a TextInput.  The window holds the
\* blinker weakly and the binding closures hold it strongly: it goes away
\* with the last of them and set_cursor_blink_binding makes a new one.
\* has_focus and the virtual keyboard are left out.

FocusEvent == {"FocusIn", "FocusOut", "WindowReceivedFocus", "WindowLostFocus"}

\* The properties the blinker in s is bound to.
Blinking(s) == {p \in Cursors : s.binding[p] = Visible(cursor_visible)}

\* Window::set_cursor_blink_binding(prop); b holds the engine and the timer.
set_cursor_blink_binding(b, p) ==
    LET s == IF b.t.exists THEN b.s
             ELSE [b.s EXCEPT !.value[cursor_visible] = 1,
                              !.dependencies[cursor_visible] = <<>>,
                              !.dirty[cursor_visible] = FALSE]
        t == IF b.t.exists THEN b.t ELSE [NoBlinker EXCEPT !.exists = TRUE]
    IN [s |-> set_binding(set(Forget(s, p), cursor_visible, 1), p,
                          Visible(cursor_visible)),
        t |-> start(t)]

\* TextInput::show_cursor
show_cursor(b, p) == set_cursor_blink_binding(b, p)

\* TextInput::hide_cursor leaving the property to the blinker.
hide_cursor_bound(b, p) == b

\* TextInput::hide_cursor
hide_cursor(b, p) ==
    LET s == set(IF allow_replace_binding_with_value(b.s.binding[p], 0)
                 THEN Forget(b.s, p) ELSE b.s, p, 0)
    IN [s |-> s, t |-> IF Blinking(s) = {} THEN NoBlinker ELSE b.t]

\* TextInput::focus_event
focus_event(b, p, event) ==
    IF event \in {"FocusIn", "WindowReceivedFocus"}
    THEN show_cursor(b, p)
    ELSE hide_cursor(b, p)

FocusEventAction(p, event) ==
    /\ ~panicked
    /\ LET b == focus_event([s |-> St, t |-> timer], p, event)
       IN BlinkerReturn("focus_event", p, event, b.s, b.t)

\* A cursor move or a text insertion: both end in show_cursor.
ShowCursor(p) ==
    /\ ~panicked
    /\ LET b == show_cursor([s |-> St, t |-> timer], p)
       IN BlinkerReturn("show_cursor", p, NoValue, b.s, b.t)

\* One focus event or edit of one of two TextInputs, one firing of the
\* blinker's timer, or one read of a cursor_visible property.
NextFocus ==
    \/ \E p \in Cursors, event \in FocusEvent : FocusEventAction(p, event)
    \/ \E p \in Cursors : ShowCursor(p)
    \/ Fire
    \/ \E p \in Cursors : Get(p)

InitFocus == Start /\ observe = "focus"

SpecFocus == InitFocus /\ [][NextFocus]_vars

\* ---------------------------------------------------------------------
\* The window handing mouse events to process_mouse_input and keeping the
\* state it returns, while items of the component are destroyed.

MouseReturn(state, left, l) ==
    /\ mouse_input_state' = state
    /\ items' = left
    /\ last' = l
    /\ UNCHANGED <<value, binding, dependencies, dirty, alive, current_binding,
                   panicked, reads, added, seen, cached, literal, ffi, observe,
                   array, notify, repeater, other, timer>>

\* The items of the stack that holds a grab which handle_mouse_grab will
\* honour; no item when the item tree is going to be visited.
Holding ==
    LET held == {mouse_input_state.item_stack[i].item :
                    i \in 1..Len(mouse_input_state.item_stack)}
    IN IF mouse_input_state.grabbed /\ held \subseteq items THEN held ELSE {}

\* One mouse event; filter and input are the answers of the items.  The
\* answers no call can ask for are fixed: those of an item that does not
\* exist, those of an item off the stack of a grab that is honoured, and
\* the input_event result of an item which the visit of the tree cannot
\* hand the event.
ProcessMouseInput(filter, input) ==
    /\ ~panicked
    /\ \A item \in Items \ items :
           filter[item] = "Outside" /\ input[item] = "EventIgnored"
    /\ Holding # {}
       => \A item \in Items \ Holding :
              filter[item] = "Outside" /\ input[item] = "EventIgnored"
    /\ Holding = {}
       => \A item \in Items :
              filter[item] \in {"Outside", "ForwardAndIgnore"}
                  => input[item] = "EventIgnored"
    /\ LET e == [alive |-> items, filter |-> filter, input |-> input]
       IN \E w \in {process_mouse_input(e, mouse_input_state)} :
              MouseReturn(w.result, items,
                          [op |-> "process_mouse_input", traversed |-> w.traversed,
                           received |-> w.received, grabber |-> w.grabber])

\* An item other than the root goes away.
DestroyItem(item) ==
    /\ ~panicked
    /\ item \in items \ {"root"}
    /\ MouseReturn(mouse_input_state, items \ {item},
                   [op |-> "destroy"])

NextMouse ==
    \/ \E filter \in [Items -> InputEventFilterResult \cup {"Outside"}],
          input \in [Items -> InputEventResult] : ProcessMouseInput(filter, input)
    \/ \E item \in Items : DestroyItem(item)

InitMouse == Start /\ observe = "mouse"

SpecMouse == InitMouse /\ [][NextMouse]_vars

\* ------------------------------------------------------------------------
\* Properties
\* ------------------------------------------------------------------------
RECURSIVE FromScratch(_, _)
\* The value of p computed from nothing but the stored literals and the
\* installed closures; NoValue when that computation does not end within
\* `fuel` nested closures (the closures read each other in a loop).
FromScratch(p, fuel) ==
    LET f == binding[p]
        x == FromScratch(IF f.k = "branch" THEN f.c ELSE f.a, fuel - 1)
        y == FromScratch(IF f.k = "xor" THEN f.b ELSE IF x # 0 THEN f.a ELSE f.b,
                         fuel - 1)
    IN  IF f = NoBinding THEN value[p]
        ELSE IF fuel = 0 \/ x = NoValue THEN NoValue
        ELSE IF f.k = "not" THEN 1 - x
        ELSE IF y = NoValue THEN NoValue
        ELSE IF f.k = "xor" THEN (x + y) % 2
        ELSE y

Returned == last.op = "get" /\ ~panicked

\* C1: every get that returns, returns the from-scratch value of the property:
\* its literal if it has no binding, else its closure applied to the
\* from-scratch values of what the closure reads; so a change of a property a
\* closure reads shows at the next get without set_binding being called again.
C1_GetIsFromScratch ==
    Returned => last.ret = FromScratch(last.p, NProps)

\* A get recomputed a chain of two closures and returned.
C1_Witness ==
    /\ Returned
    /\ Len(last.evals) >= 2
    /\ binding[last.p].k = "xor"
    /\ last.ret = 1

\* C2: on a property with no binding, set(v) immediately followed by get()
\* returns v.
C2_SetThenGet ==
    (last.op = "get" /\ last.follows # NoValue) => (~panicked /\ last.ret = last.follows)

C2_Witness ==
    /\ last.op = "get"
    /\ last.follows = 1
    /\ last.ret = 1

\* C4: when the evaluation of a closure reads a property whose closure is still
\* running, the get fails: it returns no value; no closure is ever entered
\* while it is already running, and the nesting stays bounded.
C4_LoopFails ==
    /\ last.reentered => (panicked /\ last.ret = NoValue)
    /\ ~last.twice
    /\ ~last.overflow

\* a.set_binding(|| !b.get()); b.set_binding(|| !a.get()); a.get()
C4_Witness ==
    /\ last.op = "get"
    /\ last.reentered
    /\ Len(last.evals) = 2
    /\ panicked

NeverRun(p) == binding[p] # NoBinding /\ reads[p] = {}

Count(q, x) == Cardinality({i \in 1..Len(q) : q[i] = x})

C5_ValueReplacesBinding ==
    /\ \A p \in Props : literal[p] # NoValue => p \notin Range(last.evals)
    /\ (last.op = "get" /\ literal[last.p] # NoValue)
          => (~panicked /\ last.ret = literal[last.p])

\* The get came after a set on a property the removed closure had read: the
\* edge that run left behind has marked the property.
C5_Witness ==
    /\ Returned
    /\ literal[last.p] # NoValue
    /\ dirty[last.p]

\* C6: a set on u marks no clean bound property d dirty unless the last run of
\* d's closure read u, directly or through the closures of what it read.
C6_NoSpuriousInvalidation ==
    [][ last'.op = "set" =>
          \A d \in Props :
             (binding[d] # NoBinding /\ ~dirty[d]
                /\ last'.p \notin Reach(reads, {d}, NProps))
             => ~dirty'[d] ]_vars

\* C7: when the last run of d's closure read a property u that the run before
\* had not read, a set on u marks d dirty, and the get of a dirty bound
\* property runs its closure.
C7_NewEdgesInvalidate ==
    [][ /\ last'.op = "set" =>
             \A d \in Props :
                (alive[d] /\ binding[d] # NoBinding /\ ~dirty[d] /\ last'.p \in added[d])
                => (dirty'[d] /\ d \in Range(last'.marks))
        /\ (last'.op = "get" /\ ~panicked' /\ binding[last'.p] # NoBinding
              /\ dirty[last'.p])
             => last'.p \in Range(last'.evals) ]_vars

\* A set on the property a Branch closure read for the first time in its
\* last run has marked the Branch property dirty.
C7_Witness ==
    /\ last.op = "set"
    /\ ~panicked
    /\ \E d \in Props :
          /\ binding[d].k = "branch"
          /\ last.p \in added[d]
          /\ d \in Range(last.marks)
          /\ dirty[d]

\* C8: a set, set_binding or mark_changed on a property whose dependencies Vec
\* holds a dropped property does not fail, leaves the dropped property alone
\* and marks every live entry of the Vec dirty.
C8_DeadDependentSkipped ==
    (IsWrite(last.op) /\ \E d \in Range(last.deps0) : ~alive[d])
    => /\ ~panicked
       /\ \A d \in Props :
             /\ ~alive[d] => (d \notin Range(last.marks) /\ ~dirty[d])
             /\ (alive[d] /\ d \in Range(last.deps0))
                   => (dirty[d] /\ d \in Range(last.marks))

\* The Vec held a dropped and a live dependent.
C8_Witness ==
    /\ IsWrite(last.op)
    /\ \E d \in Range(last.deps0) : ~alive[d]
    /\ \E d \in Range(last.deps0) : alive[d] /\ dirty[d]

\* C10: a property that has no binding is not dirty.
C10_NoBindingNotDirty ==
    \A p \in Props : binding[p] = NoBinding => ~dirty[p]


\* C9: the calls made through the foreign functions give, at every read, the
\* value (or the failure) the same calls give through get, set and set_binding.
C9_ForeignParity ==
    /\ ffi.panic = panicked
    /\ Returned => ffi.ret = last.ret

\* Both graphs recomputed a chain of closures and read the same value.
C9_Witness ==
    /\ observe = "ffi"
    /\ Returned
    /\ Len(last.evals) >= 2
    /\ Len(ffi.evals) >= 2
    /\ ffi.ret = 1
    /\ last.ret = 1

\* C11: when an accepted set(v) returns, the property has no binding, its
\* stored value is v and its dirty flag is false.
C11_SetPostcondition ==
    (last.op = "set" /\ ~panicked)
    => /\ binding[last.p] = NoBinding
       /\ value[last.p] = last.arg
       /\ ~dirty[last.p]

\* The set replaced a binding and its mark_dirty went on to a dependent.
C11_Witness ==
    /\ last.op = "set"
    /\ ~panicked
    /\ last.bound
    /\ last.arg = 1
    /\ Len(last.marks) >= 2

\* C12: when the installed binding declines to be replaced by a value,
\* set(v) changes nothing: the value, the binding, the dirty flag and the
\* dependencies of every property stay what they were and mark_dirty visits
\* no property.
C12_DeclinedSetIsNoOp ==
    [][ (last'.op = "set"
           /\ binding[last'.p] # NoBinding
           /\ ~allow_replace_binding_with_value(binding[last'.p], last'.arg))
        => /\ ~panicked'
           /\ UNCHANGED <<value, binding, dirty, dependencies, current_binding>>
           /\ last'.marks = <<>>
           /\ last'.evals = <<>> ]_vars

\* The declined set was made on a property that area's closure had read
\* and that held another value than the one offered.
C12_Witness ==
    /\ last.op = "set"
    /\ binding[last.p].k = "pinned"
    /\ area \in Range(dependencies[last.p])
    /\ ~dirty[area]
    /\ value[last.p] # last.arg

\* C13: when the installed binding declines to be replaced by a binding,
\* set_binding(f) changes nothing: the old binding stays installed (so f is
\* never invoked), no closure runs, and the value, the dirty flag and the
\* dependencies of every property stay what they were; mark_dirty visits no
\* property.
C13_DeclinedSetBindingIsNoOp ==
    [][ (last'.op = "set_binding"
           /\ binding[last'.p] # NoBinding
           /\ \A g \in Closures(last'.p) :
                  ~allow_replace_binding_with_binding(binding[last'.p], g))
        => /\ ~panicked'
           /\ UNCHANGED <<value, binding, dirty, dependencies, current_binding>>
           /\ last'.marks = <<>>
           /\ last'.evals = <<>> ]_vars

\* The declined set_binding was made on a clean property that area's closure
\* had read.
C13_Witness ==
    /\ last.op = "set_binding"
    /\ binding[last.p].k = "pinned"
    /\ ~dirty[last.p]
    /\ area \in Range(dependencies[last.p])
    /\ ~dirty[area]

\* C14: a get made from outside any binding leaves the dependencies Vec of
\* the property it reads as it was, and every entry it adds to the Vec of
\* another property q is a property whose binding ran during the call and
\* read q.
C14_TopLevelGetAddsNoEdge ==
    [][ last'.op = "get"
        => /\ dependencies'[last'.p] = dependencies[last'.p]
           /\ \A q \in Props :
                 /\ Len(dependencies'[q]) >= Len(dependencies[q])
                 /\ SubSeq(dependencies'[q], 1, Len(dependencies[q])) = dependencies[q]
                 /\ \A i \in (Len(dependencies[q]) + 1)..Len(dependencies'[q]) :
                       /\ dependencies'[q][i] \in Range(last'.evals)
                       /\ q \in reads'[dependencies'[q][i]] ]_vars

\* The get ran two bindings, which registered with what they read; the
\* property read from outside has no dependent.
C14_Witness ==
    /\ Returned
    /\ Len(last.evals) >= 2
    /\ dependencies[last.p] = <<>>
    /\ \E q \in Props : Range(dependencies[q]) = Range(last.evals)

\* C15: when a set, set_binding or mark_changed on p returns, every bound
\* property whose last run read p, directly or through bound properties each
\* read by the last run of the next, is dirty, whatever the value written.
C15_WriteInvalidatesReaders ==
    (IsWrite(last.op) /\ ~panicked)
    => \A d \in Props :
          (binding[d] # NoBinding /\ last.p \in Reach(reads, reads[d], NProps))
          => dirty[d]

\* area's last run read width only and width's read height: the set on
\* height reached area through width.
C15_Witness ==
    /\ last.op = "set"
    /\ ~panicked
    /\ last.p = height
    /\ reads[area] = {width}
    /\ reads[width] = {height}
    /\ dirty[area]
    /\ Range(last.marks) = {height, width, area}

\* The installed closures capture each other in a loop.
Cyclic ==
    \E p \in Props :
       p \in Reach([q \in Props |-> Mentions(binding[q])], Mentions(binding[p]), NProps)

\* C16: while the installed closures capture each other in no loop, no get,
\* set, set_binding or mark_changed fails, whatever the order of the calls
\* and whichever properties are dirty.
C16_NoFailureWithoutLoop ==
    panicked => Cyclic

\* A get recomputed two bindings of a loop-free graph while a third
\* property was dirty.
C16_Witness ==
    /\ Returned
    /\ ~Cyclic
    /\ Len(last.evals) >= 2
    /\ \E q \in Props : dirty[q]

\* C17: the destructor of the user data of a foreign binding runs once, in
\* the call that replaces the binding (set_binding), removes it (the value
\* written in place and sixtyfps_property_set_changed) or drops the handle,
\* and in no other call: not while the binding stays installed, and not for
\* a property that had no binding.
C17_DestructorOnce ==
    [][ \A p \in Props :
          Count(ffi'.freed, p) =
             IF /\ ffi.binding[p] # NoBinding
                /\ last'.p = p
                /\ (IsWrite(last'.op) \/ last'.op = "drop")
             THEN 1 ELSE 0 ]_vars

\* The handle of a property with a foreign binding was dropped while another
\* foreign binding stayed installed.
C17_Witness ==
    /\ observe = "ffi"
    /\ last.op = "drop"
    /\ ffi.freed = <<last.p>>
    /\ \E q \in Props : ffi.binding[q] # NoBinding

\* C18: when sixtyfps_property_set_changed returns, the value slot holds
\* what was written in place before the call, the property has no binding
\* and is not dirty, and every property mark_dirty reached from its
\* dependencies Vec is dirty; a get of the property made next returns the
\* value written in place.
C18_MarkChangedKeepsValue ==
    [][ /\ (last'.op = "mark_changed" /\ ~panicked')
           => /\ value'[last'.p] = last'.arg
              /\ binding'[last'.p] = NoBinding
              /\ ~dirty'[last'.p]
              /\ \A d \in Range(dependencies[last'.p]) :
                    alive[d] => d \in Range(last'.marks)
              /\ \A d \in Range(last'.marks) \ {last'.p} : dirty'[d]
        /\ (last.op = "mark_changed" /\ last'.op = "get" /\ last'.p = last.p)
           => (~panicked' /\ last'.ret = last.arg) ]_vars

\* The value of a bound property was written in place; mark_dirty went
\* through two levels of dependents.
C18_Witness ==
    /\ last.op = "mark_changed"
    /\ ~panicked
    /\ last.bound
    /\ last.arg = 1
    /\ Len(last.marks) >= 3
    /\ dirty[area]

\* C19: after every get, the failed ones included, CURRENT_BINDING is what
\* it was before the get began: None, for a get made from outside any
\* binding.
C19_MarkerRestored ==
    last.op = "get" => current_binding = None

\* C20: a set or set_binding that the closure of p issues on p itself fails:
\* the get that ran the closure returns nothing, and the binding, the dirty
\* flag and the value of p are what they were before it.
C20_SelfWriteFails ==
    [][ (last'.op = "get"
           /\ \E q \in Range(last'.evals) :
                 binding[q].k \in {"set", "rebind"} /\ binding[q].a = q)
        => /\ panicked'
           /\ last'.ret = NoValue
           /\ UNCHANGED <<value, binding, dirty>> ]_vars

\* The closure of area called area.set(true) while area held false.
C20_Witness ==
    /\ last.op = "get"
    /\ panicked
    /\ binding[area] = Setter(area, 1)
    /\ last.evals = <<area>>
    /\ value[area] = 0
    /\ \E q \in Props \ {area} : binding[q] # NoBinding

\* C25: in a get that returns, a binding that ran is pushed to the
\* dependencies Vec of a property exactly when its own closure read that
\* property: a property read by a nested evaluation gets the nested
\* binding as dependent, and not the binding that caused the nested run.
C25_InnermostRegistered ==
    [][ (last'.op = "get" /\ ~panicked')
        => \A q \in Props : \A d \in Range(last'.evals) :
              (\E i \in (Len(dependencies[q]) + 1)..Len(dependencies'[q]) :
                    dependencies'[q][i] = d)
              <=> q \in reads'[d] ]_vars

\* area's closure read width, whose closure ran as a consequence and read
\* height: height has width as its only dependent, width has area.
C25_Witness ==
    /\ Returned
    /\ last.p = area
    /\ last.evals = <<area, width>>
    /\ reads[area] = {width}
    /\ Range(dependencies[height]) = {width}
    /\ area \in Range(dependencies[width])

\* C26: every get that returns, at any depth and through either interface,
\* leaves CURRENT_BINDING as it found it, and every read a closure makes
\* finds CURRENT_BINDING naming the closure's own property; so between
\* calls, when no get is in progress, CURRENT_BINDING is None.
C26_MarkerStackDiscipline ==
    /\ ~last.stray
    /\ ~ffi.stray
    /\ current_binding = None
    /\ ffi.cur = None

\* C27: during one set, set_binding or mark_changed, mark_dirty visits each
\* property at most once.
C27_VisitedOnce ==
    IsWrite(last.op) => \A d \in Props : Count(last.marks, d) <= 1

\* C28: when a set, set_binding or mark_changed on p returns, the
\* dependencies Vec of p and of every property mark_dirty visited is empty;
\* and mark_dirty visits, besides p, only properties that were in the Vec of
\* a property it visited, so that after an edge was used its dependent is
\* told again only once a read has pushed it again.
C28_EdgesOneShot ==
    [][ (IsWrite(last'.op) /\ ~panicked')
        => /\ \A d \in Range(last'.marks) : dependencies'[d] = <<>>
           /\ \A d \in Range(last'.marks) \ {last'.p} :
                 \E v \in Range(last'.marks) : d \in Range(dependencies[v]) ]_vars

\* A set went through two levels of dependents and left all three Vecs
\* empty.
C28_Witness ==
    /\ last.op = "set"
    /\ ~panicked
    /\ Range(last.marks) = {height, width, area}
    /\ last.p = height
    /\ \A d \in Props : dependencies[d] = <<>>
    /\ dirty[width] /\ dirty[area]

\* The number of Weak pointers in all the dependencies Vecs.
Edges == Len(dependencies[width]) + Len(dependencies[height]) + Len(dependencies[area])

\* C29: every set, set_binding and mark_changed finishes: mark_dirty makes
\* at most one visit more than there were Weak pointers in the Vecs when the
\* call began, also when the pointers form a loop or repeat, and it invokes
\* no binding.
C29_PropagationTerminates ==
    [][ IsWrite(last'.op)
        => /\ ~panicked'
           /\ Len(last'.marks) <= 1 + Edges
           /\ last'.evals = <<>> ]_vars

\* The Vecs held area more than once, behind height and behind width: the
\* propagation from height visited area again and again and ended.
C29_Witness ==
    /\ IsWrite(last.op)
    /\ ~panicked
    /\ last.p = height
    /\ width \in Range(last.marks)
    /\ Count(last.marks, area) >= 3

\* C30: a dependencies Vec holds a property at most once, and so never more
\* entries than there are properties.
C30_DependentsAreASet ==
    \A q \in Props :
       /\ \A d \in Props : Count(dependencies[q], d) <= 1
       /\ Len(dependencies[q]) <= NProps

\* C21: for a Repeater (offset 0) attached to a model, after any changes of
\* the model, each announced by the matching row_added, row_removed or
\* row_changed, and an ensure_updated after them, the component at every
\* position i < row_count was last updated with the index i and with the
\* row_data(i) the model has now.
C21_ComponentsFollowModel ==
    \A r \in Repeaters :
        (last.op = "ensure_updated" /\ last.r = r /\ ~panicked
            /\ repeater[r].model = "vec")
        => \A i \in 0..(Len(array) - 1) :
               /\ i < Len(repeater[r].components)
               /\ repeater[r].components[i + 1].comp = updated(i, array[i + 1])

\* C22: after ensure_updated returns for a Repeater whose model is not
\* null and has n rows, the Repeater holds exactly n components, each of
\* them instantiated and Clean, and its is_dirty is false; with a null
\* model it holds no components.
C22_EnsureUpdatedPostcondition ==
    \A r \in Repeaters :
        (last.op = "ensure_updated" /\ last.r = r /\ ~panicked)
        => IF repeater[r].model = "vec"
           THEN /\ Len(repeater[r].components) = Len(array)
                /\ \A i \in 1..Len(repeater[r].components) :
                       /\ repeater[r].components[i].state = "Clean"
                       /\ repeater[r].components[i].comp # NoComponent
                /\ ~repeater[r].is_dirty
           ELSE repeater[r].components = <<>>

\* An ensure_updated has returned for a Repeater whose model has two rows.
C22_Witness ==
    /\ last.op = "ensure_updated" /\ ~panicked
    /\ repeater[last.r].model = "vec"
    /\ Len(array) >= 2
    /\ Len(repeater[last.r].components) = Len(array)

\* C23: each row_changed, row_added or row_removed call on a ModelNotify
\* is delivered exactly once to every attached peer that is still alive
\* and to no peer that has been destroyed, also when the same peer was
\* attached more than once; a peer that is attached is destroyed with its
\* Repeater all the same.
C23_DeliveredOnce ==
    (last.op \in {"row_changed", "row_added", "row_removed"} /\ ~panicked)
    => \A id \in Range(last.delivered) \cup Range(notify) \cup last.alive :
           Count(last.delivered, id) = IF id \in last.alive THEN 1 ELSE 0

\* A change of the model was announced to two peers, one of which had
\* been attached twice.
C23_Witness ==
    /\ last.op \in {"row_changed", "row_added", "row_removed"} /\ ~panicked
    /\ Cardinality(last.alive) = 2
    /\ Len(last.delivered) = 2
    /\ last.again \cap last.alive # {}

\* C24: after TextCursorBlinker::set_binding(instance, prop), prop reads
\* true; after each later firing of the blinker's repeating timer, prop
\* reads the negation of what it read before the firing, without being
\* set or bound again; start called while the timer runs does not make a
\* second timer.
C24_BlinkerToggles ==
    /\ (last.op = "blinker_set_binding" /\ ~panicked) => get(St, last.p).ret = 1
    /\ (last.op = "fire" /\ ~panicked)
       => \A p \in Cursors :
              binding[p] = Visible(cursor_visible)
              => get(St, p).ret = 1 - last.arg[p]
    /\ timer.armed <= 1

\* The timer, on which start was called again while it ran, has fired for
\* the second time at least since height was bound to the blinker: height
\* read false before the firing and reads true now.
C24_Witness ==
    /\ last.op = "fire" /\ ~panicked
    /\ binding[height] = Visible(cursor_visible)
    /\ last.arg[height] = 0
    /\ get(St, height).ret = 1
    /\ timer.again

\* C31: whenever a get, or the foreign update, on a property returns
\* normally, the dirty flag of that property is false, whatever its state
\* was before the call.
C31_GetClearsDirty ==
    (last.op = "get" /\ ~panicked)
    => ~dirty[last.p] /\ (~ffi.panic => ~ffi.dirty[last.p])

\* C32: in every state between calls, a property that has a binding and is
\* dirty has an empty dependencies Vec: its readers were notified when it
\* became dirty, and none registers before it has been evaluated again.
C32_DirtyBoundHasNoDependents ==
    \A p \in Props :
        (binding[p] # NoBinding /\ dirty[p]) => dependencies[p] = <<>>

\* A property that had readers was bound again: it is dirty and its Vec is
\* empty.
C32_Witness ==
    /\ last.op = "set_binding" /\ ~panicked
    /\ last.deps0 # <<>>
    /\ binding[last.p] # NoBinding /\ dirty[last.p]
    /\ dependencies[last.p] = <<>>

\* C33: in every reachable state the dependents relation (u -> d when d is
\* in the dependencies Vec of u) is acyclic, stale edges included; no
\* property is in its own Vec.
C33_DependentsAcyclic ==
    \A p \in Props :
        p \notin Reach([q \in Props |-> Range(dependencies[q])],
                       Range(dependencies[p]), NProps)

\* A path of two edges, the first of them stale: height read width when it
\* had a binding, and area has read height since height lost it.
C33_Witness ==
    /\ ~panicked
    /\ binding[height] = NoBinding
    /\ height \in Range(dependencies[width])
    /\ area \in Range(dependencies[height])

\* C34: with bindings that only read, a get never changes which binding is
\* installed on a property, never changes the stored value of a property
\* without a binding, never sets a dirty flag, and changes the stored
\* value only of properties that had a binding and were dirty when the
\* call began.
C34_GetFrame ==
    [][ last'.op = "get"
        => /\ binding' = binding
           /\ \A p \in Props :
                  /\ binding[p] = NoBinding => value'[p] = value[p]
                  /\ dirty'[p] => dirty[p]
                  /\ value'[p] # value[p] => (binding[p] # NoBinding /\ dirty[p]) ]_vars

\* A get has run the bindings of two properties that were dirty.
C34_Witness ==
    /\ last.op = "get" /\ ~panicked
    /\ Len(last.evals) >= 2
    /\ \A p \in Props : ~dirty[p]
    /\ binding[width] = NoBinding /\ value[width] = 1

\* The model a notification of the step came from.
Changed(l) == IF l.r = "other" THEN "other" ELSE "vec"

\* C35: once the model property of a Repeater has been bound anew, the
\* next access of the model resets the Repeater: after model_set_row_data
\* it has no components, is dirty and has offset 0, and after
\* ensure_updated it has offset 0 and exactly one clean component per row
\* of the new model, showing that row.  From then on a row_added,
\* row_removed or row_changed notification of a model other than the one
\* the property returns leaves the Repeater as it was, and a notification
\* of the model the property returns leaves it dirty.
C35_RebindDetaches ==
    [][ \A r \in Repeaters :
          LET was == repeater[r]
              now == repeater'[r]
              rows == IF was.model = "other" THEN other'.array ELSE array'
          IN  /\ (last'.op = "model_set_row_data" /\ last'.r = r
                   /\ was.model_dirty /\ was.model # "null" /\ ~panicked')
                 => /\ now.components = <<>> /\ now.is_dirty /\ now.offset = 0
                    /\ ~now.model_dirty
              /\ (last'.op = "ensure_updated" /\ last'.r = r
                   /\ was.model_dirty /\ was.model # "null" /\ ~panicked')
                 => /\ now.offset = 0 /\ ~now.is_dirty
                    /\ Len(now.components) = Len(rows)
                    /\ \A i \in 1..Len(rows) :
                           now.components[i]
                               = [state |-> "Clean", comp |-> updated(i - 1, rows[i])]
              /\ (last'.op \in {"row_added", "row_removed", "row_changed"}
                   /\ was.exists /\ ~was.model_dirty)
                 => IF Changed(last') = was.model
                    THEN now.is_dirty
                    ELSE now = was ]_vars

\* The Repeater was attached to the second model, then bound to the first
\* one and brought up to date; the second model has changed since and the
\* Repeater still shows the row of the first.
C35_Witness ==
    /\ last.op \in {"row_added", "row_removed", "row_changed"} /\ last.r = "other"
    /\ ~panicked
    /\ Freed("first") \in Range(other.notify)
    /\ repeater["first"].model = "vec" /\ ~repeater["first"].model_dirty
    /\ ~repeater["first"].is_dirty
    /\ Len(repeater["first"].components) = 1

\* The item on top of the stack the window holds.
Top(state) == state.item_stack[Len(state.item_stack)]

\* C37: an event that arrives while the mouse is grabbed and every item
\* of the grab stack exists is not taken through the item tree.  The
\* stack returned is the beginning of the stack held, cut where an
\* ancestor recorded with ForwardAndInterceptGrab has intercepted; the
\* item on its top, and no other item, receives the event, and what else
\* is sent (MouseEvent::Exit) goes to items of the stack held.
C37_GrabDelivers ==
    [][ (last'.op = "process_mouse_input" /\ Holding # {})
        => LET stack == mouse_input_state'.item_stack
           IN /\ ~last'.traversed
              /\ stack # <<>> /\ Len(stack) <= Len(mouse_input_state.item_stack)
              /\ stack = SubSeq(mouse_input_state.item_stack, 1, Len(stack))
              /\ <<Top(mouse_input_state').item, "event">> \in last'.received
              /\ \A c \in last'.received :
                     /\ c[1] \in Holding
                     /\ c[2] # "Exit" => c = <<Top(mouse_input_state').item, "event">> ]_vars

\* The root has intercepted the grab of the child and holds it now, while
\* the other child exists and has got nothing.
C37_Witness ==
    /\ last.op = "process_mouse_input" /\ ~last.traversed
    /\ mouse_input_state.grabbed /\ Len(mouse_input_state.item_stack) = 1
    /\ last.received = {<<"root", "event">>, <<"child", "Exit">>}
    /\ items = Items

\* C38: on an event that finds a grab whose stack exists, the state
\* returned is grabbed if and only if the grabbing item has answered
\* GrabMouse.  An event that finds no grab is taken through the item
\* tree.  An event that finds a grab with a destroyed item on its stack is
\* taken through the item tree too, and the state returned is the one
\* that visit builds: it holds existing items only and is grabbed if and
\* only if an item has answered GrabMouse during the visit.
C38_GrabLasts ==
    [][ last'.op = "process_mouse_input"
        => IF Holding # {}
           THEN /\ ~last'.traversed
                /\ mouse_input_state'.grabbed <=> last'.grabber # ""
           ELSE /\ last'.traversed
                /\ mouse_input_state'.grabbed <=> last'.grabber # ""
                /\ \A i \in 1..Len(mouse_input_state'.item_stack) :
                       mouse_input_state'.item_stack[i].item \in items ]_vars

\* The grabbing item has answered something else than GrabMouse: the
\* stack is kept and the grab is over.
C38_Witness ==
    /\ last.op = "process_mouse_input" /\ ~last.traversed
    /\ ~mouse_input_state.grabbed /\ last.grabber = ""
    /\ Len(mouse_input_state.item_stack) = 2
    /\ <<Top(mouse_input_state).item, "event">> \in last.received

\* C39: a grabbed MouseInputState has an item stack that is not empty
\* and whose last entry holds the item that has answered GrabMouse, with
\* the filter result ForwardAndInterceptGrab.
C39_GrabbedStack ==
    mouse_input_state.grabbed
    => /\ mouse_input_state.item_stack # <<>>
       /\ Top(mouse_input_state).filter = "ForwardAndInterceptGrab"
       /\ last.op = "process_mouse_input" => Top(mouse_input_state).item = last.grabber

\* The visit of the item tree has ended in a grab by the second child.
C39_Witness ==
    /\ last.op = "process_mouse_input" /\ last.traversed
    /\ mouse_input_state.grabbed /\ last.grabber = "side"
    /\ Len(mouse_input_state.item_stack) = 2

\* p holds false and has no binding that could change that.
Hidden(p) == binding[p] = NoBinding /\ value[p] = 0

\* The call before was a show_cursor of the TextInput of p.
CursorShown(p) ==
    /\ last.op \in {"show_cursor", "focus_event"} /\ last.p = p
    /\ last.op = "focus_event" => last.arg \in {"FocusIn", "WindowReceivedFocus"}

\* C40: a TextInput that has handled FocusOut or WindowLostFocus holds
\* false in cursor_visible without a binding; that lasts through every
\* step that is not a FocusIn, a WindowReceivedFocus, a cursor move or a
\* text insertion of that TextInput, the firings of the blinker's timer
\* among them, and every read of the property meanwhile gives false.  A
\* read that follows one of those four gives true.
C40_FocusOutHidesCursor ==
    [][ \A p \in Cursors :
          /\ (last'.op = "focus_event" /\ last'.p = p
               /\ last'.arg \in {"FocusOut", "WindowLostFocus"})
             => Hidden(p)'
          /\ (Hidden(p) /\ ~CursorShown(p)') => Hidden(p)'
          /\ (Hidden(p) /\ last'.op = "get" /\ last'.p = p)
             => (~panicked' /\ last'.ret = 0)
          /\ (CursorShown(p) /\ last'.op = "get" /\ last'.p = p)
             => (~panicked' /\ last'.ret = 1) ]_vars

\* The cursor of a TextInput that has lost the focus has been read after
\* a firing of the timer that reached the property, while the cursor of
\* the other TextInput was blinking.
C40_Witness ==
    /\ last.op = "get" /\ last.p = height /\ last.ret = 0 /\ ~panicked
    /\ Hidden(height) /\ dirty[height]
    /\ binding[area] = Visible(cursor_visible)

\* C36: every row_added, row_removed or row_changed notification that
\* describes a change of the attached model truthfully is handled without
\* a failure, whatever the offset and the number of components held, also
\* when fewer components are held than the model has rows.
C36_NotificationsHandled ==
    last.op \in {"row_changed", "row_added", "row_removed"} => ~panicked

====
